---------------------------- MODULE Spec2Model ----------------------------
(***************************************************************************)
(* Claidex risk-score engine: the shared scoring functions of              *)
(* etl/compute/risk_scores.py and the batch (map) / merge (reduce)         *)
(* pipeline of etl/compute/claidex_modal.py.                               *)
(*                                                                         *)
(* Number representation (fixed point, TLC integers are 32 bit):           *)
(*   money, claims, beneficiaries   whole units                            *)
(*   natural logarithms             1/1000   (LogScale)                    *)
(*   z-scores                       1/1000   (ZScale)                      *)
(*   component scores, percentiles  1/100    (round(.., 2))                *)
(*   r_raw and risk_score           1/10000  (score x weight in percent;   *)
(*                                  a calibrated score is a multiple of    *)
(*                                  100, being rounded to 2 decimals)      *)
(* NPIs are 10-digit strings in the code; equal-length digit strings sort  *)
(* like the numbers they spell, so they are modelled as naturals.          *)
(***************************************************************************)
EXTENDS Integers, Sequences, FiniteSets, TLC

(***************************************************************************)
(* Configuration constants of risk_scores.py                               *)
(***************************************************************************)
PEER_MIN_SIZE == 50
PEER_MIN_CLAIMS == 100
TaxPrefixLen == 10

\* WEIGHTS in percent (0.30, 0.25, 0.20, 0.15, 0.10)
WEIGHTS ==
    [billing_outlier_score       |-> 30,
     ownership_chain_risk        |-> 25,
     payment_trajectory_score    |-> 20,
     exclusion_proximity_score   |-> 15,
     program_concentration_score |-> 10]

\* LABEL_THRESHOLDS, thresholds in 1/10000 of a score point (the unit of
\* risk_score and r_raw)
LABEL_THRESHOLDS ==
    << <<800000, "High">>, <<600000, "Elevated">>, <<300000, "Moderate">>, <<0, "Low">> >>

\* NaN of IEEE arithmetic, kept apart from every number the model computes
NaN == -1000000000

\* null of a polars column
Null == -1000000001

(***************************************************************************)
(* Integer helpers                                                         *)
(***************************************************************************)
Max(a, b) == IF a >= b THEN a ELSE b
Min(a, b) == IF a <= b THEN a ELSE b
Abs(a) == IF a >= 0 THEN a ELSE -a

\* a / b rounded to the nearest integer, b > 0
RoundDiv(a, b) == IF a >= 0 THEN (a + b \div 2) \div b
                            ELSE -(((-a) + b \div 2) \div b)

RECURSIVE Pow2(_)
Pow2(k) == IF k = 0 THEN 1 ELSE 2 * Pow2(k - 1)

RECURSIVE Log2Floor(_)
Log2Floor(n) == IF n < 2 THEN 0 ELSE 1 + Log2Floor(n \div 2)

RECURSIVE SetToSortedSeq(_)
SetToSortedSeq(S) ==
    IF S = {} THEN <<>>
    ELSE LET m == CHOOSE x \in S : \A y \in S : x <= y
         IN <<m>> \o SetToSortedSeq(S \ {m})

\* math.log / numpy log of a positive integer, in 1/1000:
\* ln n = k ln 2 + 2 atanh((f-1)/(f+1)) with n = 2^k f, 1 <= f < 2
RECURSIVE AtanhTerms(_, _, _)
AtanhTerms(t, y2, d) ==
    IF d > 9 THEN 0 ELSE t \div d + AtanhTerms((t * y2) \div 10000, y2, d + 2)
AtanhE4(y) == AtanhTerms(y, (y * y) \div 10000, 1)
LnParts(n, k, p) ==
    RoundDiv((k * 69315) \div 10 + 2 * AtanhE4(((n - p) * 10000) \div (n + p)), 10)
LnMilli(n) == LnParts(n, Log2Floor(n), Pow2(Log2Floor(n)))

\* exp(u) for u >= 0 given in 1/10000, result in 1/10000 (Taylor series)
RECURSIVE ExpTerms(_, _, _)
ExpTerms(u, k, t) ==
    IF t = 0 \/ k > 30 THEN 0
    ELSE t + ExpTerms(u, k + 1, (t * u) \div (k * 10000))
ExpE4(u) == ExpTerms(u, 1, 10000)


(***************************************************************************)
(* Statistical helpers                                                     *)
(***************************************************************************)
ALPHA_TENTHS == 7
MAD_SCALE_E4 == 14826
ZClip == 5000

\* the values f[x], x in DOMAIN f, as an ascending sequence
RECURSIVE SortedVals(_, _)
SortedVals(f, D) ==
    IF D = {} THEN <<>>
    ELSE LET m == CHOOSE x \in D : \A y \in D : f[x] <= f[y]
         IN <<f[m]>> \o SortedVals(f, D \ {m})

\* twice the median of a non-empty ascending sequence (exact for even lengths)
Median2(s) ==
    LET n == Len(s)
    IN IF n % 2 = 1 THEN 2 * s[(n + 1) \div 2]
       ELSE s[n \div 2] + s[n \div 2 + 1]

\* twice the median of the values of f
Med2Of(f) == Median2(SortedVals(f, DOMAIN f))

\* four times the median absolute deviation of the values of f
DevFrom(f, med2) == [x \in DOMAIN f |-> Abs(2 * f[x] - med2)]
Mad4Of(f) == Med2Of(DevFrom(f, Med2Of(f)))

ClipZ(z) == IF z > ZClip THEN ZClip ELSE IF z < -ZClip THEN -ZClip ELSE z

\* clip((x - med) / (MAD_SCALE * max(mad, 1e-9)), -5, 5) in 1/1000, from
\* d2 = 2 (x - med) and mad4 = 4 mad.  A MAD of 0 is below 1e-9 and any
\* representable deviation (>= 0.0005) then saturates.
ZFromDev(d2, mad4) ==
    LET sgn == IF d2 < 0 THEN -1 ELSE 1
        a   == Abs(d2)
    IN IF d2 = 0 THEN 0
       ELSE IF mad4 = 0 THEN sgn * ZClip
       ELSE IF a \div 4 >= mad4 THEN sgn * ZClip
       ELSE LET sc == IF a > 100000 THEN 1000 ELSE 1
                q  == RoundDiv((a \div sc) * 20000, MAD_SCALE_E4)
                m  == Max(mad4 \div sc, 1)
            IN sgn * ClipZ(RoundDiv(q * 1000, m))

\* the literal 1e-9 of robust_zscore, in the unit of its arguments (1e-10)
MAD_FLOOR == 10

\* robust_zscore(values, target): values a sequence of numbers and target a
\* number, in units of 1e-10, or NaN; the result in 1/1000.  A NaN among
\* the arguments makes the median or the difference NaN, every comparison
\* with it false, and np.clip returns it.
robust_zscore(values, target) ==
    IF Len(values) = 0 THEN 0
    ELSE IF target = NaN \/ (\E k \in DOMAIN values : values[k] = NaN) THEN NaN
    ELSE IF Mad4Of(values) < 4 * MAD_FLOOR
         THEN ClipZ(RoundDiv((2 * target - Med2Of(values)) * 1000, 2 * MAD_FLOOR))
    ELSE ZFromDev(2 * target - Med2Of(values), Mad4Of(values))

\* map_to_score(z) = 100 / (1 + exp(-z / 2)), z in 1/1000, result in 1/100
\* (exp of NaN is NaN)
map_to_score(z) ==
    IF z = NaN THEN NaN
    ELSE LET E == ExpE4(Abs(z) * 5)
         IN IF z >= 0 THEN RoundDiv(10000 * E, E + 10000)
            ELSE RoundDiv(100000000, E + 10000)

\* risk_label(score): descending scan of LABEL_THRESHOLDS
RECURSIVE LabelScan(_, _)
LabelScan(score, i) ==
    IF i > Len(LABEL_THRESHOLDS) THEN "Low"
    ELSE IF score >= LABEL_THRESHOLDS[i][1] THEN LABEL_THRESHOLDS[i][2]
    ELSE LabelScan(score, i + 1)
risk_label(score) == IF score = NaN THEN "Low" ELSE LabelScan(score, 1)

\* ALPHA ** k in 1/10000
RECURSIVE AlphaPow(_)
AlphaPow(k) == IF k = 0 THEN 10000 ELSE (AlphaPow(k - 1) * ALPHA_TENTHS) \div 10


(***************************************************************************)
(* Tables.  A payments table is a set of rows                              *)
(*   [npi, year, program, payments, claims, beneficiaries, taxonomy, state]*)
(* (taxonomy a sequence of characters).  A providers table is a sequence   *)
(* of rows [npi, display_name]; an exclusions table a set of rows          *)
(* [npi, reinstated].                                                      *)
(***************************************************************************)
NpisOf(rows) == {r.npi : r \in rows}

RECURSIVE SumOver(_, _)
SumOver(f, D) ==
    IF D = {} THEN 0
    ELSE LET x == CHOOSE y \in D : TRUE IN f[x] + SumOver(f, D \ {x})

MaxOfSet(S) == CHOOSE x \in S : \A y \in S : y <= x

\* pl.col("taxonomy").str.slice(0, 10)
StrSlice10(t) == SubSeq(t, 1, Min(Len(t), TaxPrefixLen))

\* payments.filter(pl.col("npi").is_in(npis))
FilterNpi(rows, npis) == {r \in rows : r.npi \in npis}

(***************************************************************************)
(* compute_peer_metrics                                                    *)
(***************************************************************************)
\* group_by(npi, year, taxonomy, state) with the sums, m1..m3 and their logs
\* (x + EPSILON).log() of x = (n - d) / d, d >= 1, in 1/1000: the log of a
\* negative number is NaN.  (The log of 0 is -inf; no input of the model
\* makes an argument 0.)
LogOfRatio(n, d) == IF n <= 0 THEN NaN ELSE LnMilli(n) - LnMilli(d)

\* one aggregated row from the sums tp, tc, tb of its group:
\* m1 = tp / max(tc, 1) kept as the fraction m1n / m1d,
\* lm1 = log1p(m1), lm2 = log1p(tc / max(tb, 1)), lm3 = log1p(tp)
AggRow(k, tp, tc, tb) ==
    [npi |-> k[1], year |-> k[2], taxonomy |-> k[3], state |-> k[4],
     taxonomy_10 |-> StrSlice10(k[3]),
     total_payments |-> tp, total_claims |-> tc,
     total_beneficiaries |-> tb,
     m1n |-> tp, m1d |-> Max(tc, 1),
     lm1 |-> LogOfRatio(tp + Max(tc, 1), Max(tc, 1)),
     lm2 |-> LogOfRatio(tc + Max(tb, 1), Max(tb, 1)),
     lm3 |-> LogOfRatio(tp + 1, 1)]

AggGroup(k, g) ==
    AggRow(k, SumOver([r \in g |-> r.payments], g),
              SumOver([r \in g |-> r.claims], g),
              SumOver([r \in g |-> r.beneficiaries], g))

AggRows(payments) ==
    {AggGroup(k, {r \in payments : <<r.npi, r.year, r.taxonomy, r.state>> = k})
        : k \in {<<r.npi, r.year, r.taxonomy, r.state>> : r \in payments}}

EligiblePeers(agg) == {a \in agg : a.total_claims >= PEER_MIN_CLAIMS}

PrimaryGroup(peers, a) ==
    {p \in peers : p.taxonomy_10 = a.taxonomy_10 /\ p.state = a.state /\ p.year = a.year}
FallbackGroup(peers, a) ==
    {p \in peers : p.taxonomy_10 = a.taxonomy_10 /\ p.year = a.year}

\* the group whose statistics a row uses: primary when it has at least
\* PEER_MIN_SIZE eligible members, else the fallback
ResolvedGroup(peers, a) ==
    IF Cardinality(PrimaryGroup(peers, a)) >= PEER_MIN_SIZE
    THEN PrimaryGroup(peers, a) ELSE FallbackGroup(peers, a)

\* z of one log metric against the resolved group; null (no group) filled 0
ZAgainst(f, x) == ZFromDev(2 * x - Med2Of(f), Mad4Of(f))
\* twice the median of the values of f some of which are NaN: polars sorts
\* NaN last, and a middle element that is NaN makes the median NaN
Med2WithNaN(f) ==
    LET fin == {x \in DOMAIN f : f[x] # NaN}
        n   == Cardinality(DOMAIN f)
        s   == SortedVals(f, fin)
    IN IF n % 2 = 1
       THEN (IF (n + 1) \div 2 <= Len(s) THEN 2 * s[(n + 1) \div 2] ELSE NaN)
       ELSE (IF n \div 2 + 1 <= Len(s) THEN s[n \div 2] + s[n \div 2 + 1] ELSE NaN)

\* |2 f[x] - med2| per element, NaN for a NaN element
DevWithNaN(f, med2) ==
    [x \in DOMAIN f |-> IF f[x] = NaN THEN NaN ELSE Abs(2 * f[x] - med2)]

\* z of x against a group with NaN values: NaN when x, the median or the
\* MAD is NaN (clip leaves NaN alone)
ZWithNaN(f, x) ==
    IF x = NaN \/ Med2WithNaN(f) = NaN THEN NaN
    ELSE IF Med2WithNaN(DevWithNaN(f, Med2WithNaN(f))) = NaN THEN NaN
    ELSE ZFromDev(2 * x - Med2WithNaN(f), Med2WithNaN(DevWithNaN(f, Med2WithNaN(f))))

PeerZ(g, a, c) ==
    IF g = {} THEN 0
    ELSE IF a[c] = NaN \/ (\E p \in g : p[c] = NaN) THEN ZWithNaN([p \in g |-> p[c]], a[c])
    ELSE ZAgainst([p \in g |-> p[c]], a[c])

\* a.m1 < b.m1 and a.m1 = b.m1 by cross-multiplication
M1Less(a, b) == a.m1n * b.m1d < b.m1n * a.m1d
M1Equal(a, b) == a.m1n * b.m1d = b.m1n * a.m1d

\* ((rank - 1) / (n - 1)).fill_null(0.5) * 100, rounded to 2 decimals, with
\* polars' average rank; 0.0 / 0 is NaN, which fill_null leaves alone
M1PctRank(peers, a) ==
    IF a \notin peers THEN 5000
    ELSE LET usePrimary == Cardinality(PrimaryGroup(peers, a)) >= PEER_MIN_SIZE
             g     == IF usePrimary THEN PrimaryGroup(peers, a)
                                    ELSE FallbackGroup(peers, a)
             n     == Cardinality(g)
             less  == Cardinality({p \in g : M1Less(p, a)})
             equal == Cardinality({p \in g : M1Equal(p, a)})
             rank2 == 2 * less + equal + 1
         IN IF n = 1 THEN NaN
            ELSE RoundDiv(10000 * (rank2 - 2), 2 * (n - 1))

\* the output row of an aggregated row a whose resolved group is g
PeerRow(peers, g, a) ==
    [npi |-> a.npi, year |-> a.year, taxonomy_10 |-> a.taxonomy_10,
     state |-> a.state, peer_count |-> Cardinality(g),
     m1_pct_rank |-> M1PctRank(peers, a),
     z_lm1 |-> PeerZ(g, a, "lm1"),
     z_lm2 |-> PeerZ(g, a, "lm2"),
     z_lm3 |-> PeerZ(g, a, "lm3"),
     total_payments |-> a.total_payments,
     total_claims |-> a.total_claims]

PeerRows(agg, peers) == {PeerRow(peers, ResolvedGroup(peers, a), a) : a \in agg}
PeerMetricsOf(agg) == PeerRows(agg, EligiblePeers(agg))

compute_peer_metrics(payments) == PeerMetricsOf(AggRows(payments))


(***************************************************************************)
(* compute_billing_score                                                   *)
(***************************************************************************)
\* clip(lower_bound=0.0); NaN stays NaN
ClipLow0(z) == IF z = NaN THEN NaN ELSE IF z < 0 THEN 0 ELSE z

\* mean of the m1_pct_rank column of one provider, rounded to 2 decimals
MeanPct(rows) ==
    IF \E r \in rows : r.m1_pct_rank = NaN THEN NaN
    ELSE RoundDiv(SumOver([r \in rows |-> r.m1_pct_rank], rows), Cardinality(rows))

\* decay-weighted mean of f over the rows, weights ALPHA ** (max_year - year)
\* (a NaN term makes the sum NaN)
DecayMean(rows, f, max_year, denomFactor) ==
    LET w  == [r \in rows |-> AlphaPow(max_year - r.year)]
        ws == SumOver(w, rows)
        wz == SumOver([r \in rows |-> w[r] * f[r]], rows)
    IN IF \E r \in rows : f[r] = NaN THEN NaN
       ELSE RoundDiv(wz, denomFactor * Max(ws, 1))

\* z_lm1 + z_lm2 + z_lm3 of a row, each clipped below at 0
ClippedZSum(r) ==
    IF r.z_lm1 = NaN \/ r.z_lm2 = NaN \/ r.z_lm3 = NaN THEN NaN
    ELSE ClipLow0(r.z_lm1) + ClipLow0(r.z_lm2) + ClipLow0(r.z_lm3)

\* latest-year row of a provider (sort by npi, year descending, first)
LatestRow(rows) == CHOOSE r \in rows : \A q \in rows : q.year <= r.year

\* one row per npi; the empty set for an empty input
\* the billing row of provider n from its rows of peer_metrics and its
\* latest row
BillingRow(n, rows, last, max_year) ==
    [npi |-> n,
     billing_outlier_score |->
        map_to_score(DecayMean(rows, [r \in rows |-> ClippedZSum(r)], max_year, 3)),
     billing_outlier_percentile |-> MeanPct(rows),
     peer_taxonomy |-> last.taxonomy_10,
     peer_state |-> last.state,
     peer_count |-> last.peer_count,
     data_window_years |-> SetToSortedSeq({r.year : r \in rows})]

BillingOf(n, rows, max_year) == BillingRow(n, rows, LatestRow(rows), max_year)

BillingRows(peer_metrics, max_year) ==
    {BillingOf(n, {r \in peer_metrics : r.npi = n}, max_year) : n \in NpisOf(peer_metrics)}

compute_billing_score(peer_metrics) ==
    IF peer_metrics = {} THEN {}
    ELSE BillingRows(peer_metrics, MaxOfSet({r.year : r \in peer_metrics}))

(***************************************************************************)
(* compute_trajectory_score                                                *)
(***************************************************************************)
\* shift(1).over("npi") on rows sorted by year: the provider's previous row
PrevRow(peer_metrics, r) ==
    LET before == {q \in peer_metrics : q.npi = r.npi /\ q.year < r.year}
    IN IF before = {} THEN Null
       ELSE (CHOOSE q \in before : \A x \in before : x.year <= q.year).total_payments

\* rows with a previous row, with growth_rate in 1/1000
\* (payments - prev) / max(prev, 1)
GrowthRate(total_payments, prev) ==
    RoundDiv((total_payments - prev) * 1000, Max(prev, 1))

GrowthRows(peer_metrics) ==
    {[npi |-> r.npi, year |-> r.year, taxonomy_10 |-> r.taxonomy_10,
      state |-> r.state,
      growth_rate |-> GrowthRate(r.total_payments, PrevRow(peer_metrics, r))]
     : r \in {q \in peer_metrics : PrevRow(peer_metrics, q) # Null}}

\* the (taxonomy_10, state, year) group of a row of npi_yearly
GrowthGroup(npi_yearly, r) ==
    {q \in npi_yearly : q.taxonomy_10 = r.taxonomy_10
                         /\ q.state = r.state /\ q.year = r.year}

\* z_g clipped below at 0
GrowthZ(g, r) == ClipLow0(ZAgainst([q \in g |-> q.growth_rate], r.growth_rate))

TrajectoryRow(n, z) ==
    [npi |-> n,
     payment_trajectory_score |-> map_to_score(z),
     payment_trajectory_zscore |-> z]

TrajectoryOf(npi_yearly, n, rows, max_year) ==
    TrajectoryRow(n, DecayMean(rows,
                               [r \in rows |-> GrowthZ(GrowthGroup(npi_yearly, r), r)],
                               max_year, 1))

TrajectoryRows(npi_yearly) ==
    IF npi_yearly = {} THEN {}
    ELSE {TrajectoryOf(npi_yearly, n, {r \in npi_yearly : r.npi = n},
                       MaxOfSet({r.year : r \in npi_yearly}))
          : n \in NpisOf(npi_yearly)}

compute_trajectory_score(peer_metrics) ==
    IF peer_metrics = {} THEN {} ELSE TrajectoryRows(GrowthRows(peer_metrics))

(***************************************************************************)
(* compute_program_concentration and the top program per NPI               *)
(***************************************************************************)
RecentWindow == 2

\* payments.filter(year >= max_year - 2), max_year taken over the whole input
RecentPayments(payments) ==
    LET max_year == MaxOfSet({r.year : r \in payments})
    IN {r \in payments : r.year >= max_year - RecentWindow}

ProgTotal(recent, n, prog) ==
    LET g == {r \in recent : r.npi = n /\ r.program = prog}
    IN SumOver([r \in g |-> r.payments], g)

\* the score, in 1/100, of the largest program total top out of the total
\* grand_total: max_share = top / grand_total.clip(lower_bound=1), then
\* min(100, 200 * (max_share - 0.5)) above 0.5 and 0 otherwise, rounded to 2
\* decimals.  Both totals are in 1/dollar of a dollar.
ShareScore(top, grand_total, dollar) ==
    LET clipped == Max(grand_total, dollar)
    IN IF 2 * top > clipped
       THEN Min(10000, RoundDiv(20000 * top - 10000 * clipped, clipped))
       ELSE 0

\* payments are in whole dollars
compute_program_concentration(payments) ==
    IF payments = {} THEN {}
    ELSE
    LET recent == RecentPayments(payments)
        row(n) ==
            LET progs == {r.program : r \in {q \in recent : q.npi = n}}
            IN [npi |-> n,
                program_concentration_score |->
                    ShareScore(MaxOfSet({ProgTotal(recent, n, pr) : pr \in progs}),
                               SumOver([pr \in progs |-> ProgTotal(recent, n, pr)], progs),
                               1)]
    IN {row(n) : n \in NpisOf(recent)}

\* the program with the largest recent total of each NPI
TopProgram(payments) ==
    LET recent == RecentPayments(payments)
        row(n) ==
            LET progs == {r.program : r \in {q \in recent : q.npi = n}}
            IN [npi |-> n,
                top_program |-> CHOOSE pr \in progs : \A q \in progs :
                                   ProgTotal(recent, n, q) <= ProgTotal(recent, n, pr)]
    IN {row(n) : n \in NpisOf(recent)}

(***************************************************************************)
(* compute_exclusion_proximity, compute_ownership_chain_risk               *)
(***************************************************************************)
\* the tiers scanned from the lowest
LowestTierFirst(exclusions_df, providers_df, chain_excluded, owner_excluded) ==
    [i \in DOMAIN providers_df |->
       [npi |-> providers_df[i].npi,
        exclusion_proximity_score |->
           IF providers_df[i].npi \in DOMAIN chain_excluded
              /\ chain_excluded[providers_df[i].npi] > 0 THEN 5000
           ELSE IF providers_df[i].npi \in owner_excluded THEN 8000
           ELSE IF \E x \in exclusions_df : x.npi = providers_df[i].npi /\ ~x.reinstated
                THEN 10000
           ELSE 0]]

\* one row per row of providers_df, in its order
compute_exclusion_proximity(exclusions_df, providers_df, chain_excluded, owner_excluded) ==
    LET directly_excluded == {e.npi : e \in {x \in exclusions_df : ~x.reinstated}}
        score(n) ==
            IF n \in directly_excluded THEN 10000
            ELSE IF n \in owner_excluded THEN 8000
            ELSE IF (IF n \in DOMAIN chain_excluded THEN chain_excluded[n] ELSE 0) > 0
                 THEN 5000
            ELSE 0
    IN [i \in DOMAIN providers_df |->
          [npi |-> providers_df[i].npi,
           exclusion_proximity_score |-> score(providers_df[i].npi)]]

\* round(min(100, 100 * excluded / max(total, 1)), 2)
compute_ownership_chain_risk(chain_data) ==
    Min(10000, RoundDiv(10000 * chain_data.chain_excluded_count,
                        Max(chain_data.chain_provider_count, 1)))


(***************************************************************************)
(* generate_flags: the list of fired rules, in the order of the code.      *)
(* A flag is the tuple of the rule and the values its text is built from.  *)
(***************************************************************************)
FirstRuleOnly(billing_outlier_score, billing_outlier_percentile, ownership_chain_risk, payment_trajectory_score, exclusion_proximity_score, program_concentration_score, chain_excluded_count, top_program) ==
    IF billing_outlier_percentile >= 9500 THEN << <<"billing_percentile">> >>
    ELSE IF billing_outlier_score >= 8000 /\ payment_trajectory_score >= 6000
    THEN << <<"rapid_growth">> >>
    ELSE IF ownership_chain_risk >= 5000 THEN << <<"chain_excluded", chain_excluded_count, "providers">> >>
    ELSE IF program_concentration_score >= 6000 THEN << <<"single_payer", top_program>> >>
    ELSE IF exclusion_proximity_score >= 8000 THEN << <<"exclusion">> >>
    ELSE <<>>

generate_flags(billing_outlier_score, billing_outlier_percentile, ownership_chain_risk, payment_trajectory_score, exclusion_proximity_score, program_concentration_score, chain_excluded_count, top_program) ==
    (IF billing_outlier_percentile >= 9500 THEN << <<"billing_percentile">> >> ELSE <<>>)
    \o (IF billing_outlier_score >= 8000 /\ payment_trajectory_score >= 6000
        THEN << <<"rapid_growth">> >> ELSE <<>>)
    \o (IF ownership_chain_risk >= 5000
        THEN << <<"chain_excluded", chain_excluded_count,
                  IF chain_excluded_count # 1 THEN "providers" ELSE "provider">> >>
        ELSE <<>>)
    \o (IF program_concentration_score >= 6000
        THEN << <<"single_payer", top_program>> >> ELSE <<>>)
    \o (IF exclusion_proximity_score >= 8000 THEN << <<"exclusion">> >> ELSE <<>>)

\* json.dumps(x): the text of x, one text per value
JsonDumps(x) == <<"json", x>>

(***************************************************************************)
(* Joining the component frames on npi (left joins from billing_df) and    *)
(* the weighted raw score                                                  *)
(***************************************************************************)
\* the value of column c of the row of npi n in a frame keyed by npi,
\* fill_null(0.0) when there is none
ColOr0(df, n, c) ==
    IF \E r \in df : r.npi = n THEN (CHOOSE r \in df : r.npi = n)[c] ELSE 0

\* the plain sum of the components
UnweightedSum(b, o, t, e, p) == b + o + t + e + p

\* sum of component x weight, in 1/10000
\* (NaN when a component is NaN)
RawScore(b, o, t, e, p) ==
    IF NaN \in {b, o, t, e, p} THEN NaN
    ELSE b * WEIGHTS.billing_outlier_score
         + o * WEIGHTS.ownership_chain_risk
         + t * WEIGHTS.payment_trajectory_score
         + e * WEIGHTS.exclusion_proximity_score
         + p * WEIGHTS.program_concentration_score

\* one joined row: the billing row b with the other frames' columns;
\* e is the exclusion_proximity_score of the joined excl_prox row
JoinedRow(b, trajectory_df, conc_df, ownership, e, top_program_df) ==
    LET n   == b.npi
        t   == ColOr0(trajectory_df, n, "payment_trajectory_score")
        tz  == ColOr0(trajectory_df, n, "payment_trajectory_zscore")
        pc  == ColOr0(conc_df, n, "program_concentration_score")
        o   == IF n \in DOMAIN ownership THEN ownership[n].ownership_chain_risk ELSE 0
        cec == IF n \in DOMAIN ownership THEN ownership[n].chain_excluded_count ELSE 0
        top == IF \E r \in top_program_df : r.npi = n
               THEN (CHOOSE r \in top_program_df : r.npi = n).top_program ELSE ""
    IN [npi |-> n,
        r_raw |-> RawScore(b.billing_outlier_score, o, t, e, pc),
        billing_outlier_score |-> b.billing_outlier_score,
        billing_outlier_percentile |-> b.billing_outlier_percentile,
        ownership_chain_risk |-> o,
        payment_trajectory_score |-> t,
        payment_trajectory_zscore |-> tz,
        exclusion_proximity_score |-> e,
        program_concentration_score |-> pc,
        chain_excluded_count |-> cec,
        top_program |-> top,
        peer_taxonomy |-> b.peer_taxonomy,
        peer_state |-> b.peer_state,
        peer_count |-> b.peer_count,
        data_window_years |-> b.data_window_years]

\* the exclusion_proximity_score values a left join on npi finds for n:
\* one per matching row of excl_prox_df, a single null (filled 0) for none
ExclMatches(excl_prox_df, n) ==
    LET idx == {i \in DOMAIN excl_prox_df : excl_prox_df[i].npi = n}
    IN IF idx = {} THEN <<0>>
       ELSE [k \in 1..Cardinality(idx) |->
               excl_prox_df[SetToSortedSeq(idx)[k]].exclusion_proximity_score]

\* the joined frame as a sequence of rows in npi order (the row order polars
\* gives a group_by is unspecified; npi order stands for it)
RECURSIVE JoinRows(_, _, _, _, _, _, _)
JoinRows(npis, billing_df, trajectory_df, conc_df, ownership, excl_prox_df, top_program_df) ==
    IF npis = <<>> THEN <<>>
    ELSE LET n  == Head(npis)
             b  == CHOOSE r \in billing_df : r.npi = n
             es == ExclMatches(excl_prox_df, n)
         IN [k \in DOMAIN es |->
               JoinedRow(b, trajectory_df, conc_df, ownership, es[k], top_program_df)]
            \o JoinRows(Tail(npis), billing_df, trajectory_df, conc_df, ownership,
                        excl_prox_df, top_program_df)

\* steps 2 and 4-6 of process_npi_batch (and of run): all components of the
\* given payments joined, with r_raw
JoinFrames(billing_df, trajectory_df, conc_df, ownership, excl_prox_df, top_program_df) ==
    JoinRows(SetToSortedSeq(NpisOf(billing_df)), billing_df, trajectory_df, conc_df,
             ownership, excl_prox_df, top_program_df)

ScoreFrameOf(peer_metrics, payments, providers_df, exclusions_df, ownership, owner_excluded) ==
    JoinFrames(compute_billing_score(peer_metrics),
               compute_trajectory_score(peer_metrics),
               compute_program_concentration(payments),
               ownership,
               compute_exclusion_proximity(
                   exclusions_df, providers_df,
                   [n \in DOMAIN ownership |-> ownership[n].chain_excluded_count],
                   owner_excluded),
               TopProgram(payments))

ScoreFrame(payments, providers_df, exclusions_df, ownership, owner_excluded) ==
    ScoreFrameOf(compute_peer_metrics(payments), payments, providers_df,
                 exclusions_df, ownership, owner_excluded)

\* the output row (a row of provider_risk_scores) of a joined row
OutputRow(row, risk_score, label, now_iso) ==
    [npi |-> row.npi,
     risk_score |-> risk_score,
     risk_label |-> label,
     r_raw |-> row.r_raw,
     billing_outlier_score |-> row.billing_outlier_score,
     billing_outlier_percentile |-> row.billing_outlier_percentile,
     ownership_chain_risk |-> row.ownership_chain_risk,
     payment_trajectory_score |-> row.payment_trajectory_score,
     payment_trajectory_zscore |-> row.payment_trajectory_zscore,
     exclusion_proximity_score |-> row.exclusion_proximity_score,
     program_concentration_score |-> row.program_concentration_score,
     peer_taxonomy |-> row.peer_taxonomy,
     peer_state |-> row.peer_state,
     peer_count |-> row.peer_count,
     data_window_years |-> row.data_window_years,
     flags |-> JsonDumps(generate_flags(
                 row.billing_outlier_score, row.billing_outlier_percentile,
                 row.ownership_chain_risk, row.payment_trajectory_score,
                 row.exclusion_proximity_score, row.program_concentration_score,
                 row.chain_excluded_count, row.top_program)),
     components |-> JsonDumps(
        [billing_outlier_score |-> row.billing_outlier_score,
         billing_outlier_percentile |-> row.billing_outlier_percentile,
         ownership_chain_risk |-> row.ownership_chain_risk,
         payment_trajectory_score |-> row.payment_trajectory_score,
         payment_trajectory_zscore |-> row.payment_trajectory_zscore,
         exclusion_proximity_score |-> row.exclusion_proximity_score,
         program_concentration_score |-> row.program_concentration_score]),
     updated_at |-> now_iso]

(***************************************************************************)
(* Global calibration (compute_composite and merge_results)                *)
(***************************************************************************)
\* position of element i in a descending sort
DescendingRank(r, i) ==
    Cardinality({j \in DOMAIN r : r[j] > r[i]})
    + Cardinality({j \in DOMAIN r : j < i /\ r[j] = r[i]})

\* position of element i in np.argsort(r): equal keys in index order (what
\* numpy's sort does on short arrays)
ArgsortRank(r, i) ==
    Cardinality({j \in DOMAIN r : r[j] < r[i]})
    + Cardinality({j \in DOMAIN r : j < i /\ r[j] = r[i]})

\* a calibration without the n <= 1 branch: the rank over n - 1, 0 for n <= 1
CalibrateRankOnly(r) ==
    [i \in DOMAIN r |->
        IF Len(r) > 1 THEN 100 * RoundDiv(ArgsortRank(r, i) * 10000, Len(r) - 1) ELSE 0]

\* the calibrated scores of the r_raw sequence r, in 1/10000 (2 decimals)
Calibrate(r) ==
    LET n == Len(r)
    IN IF n > 1
       THEN [i \in DOMAIN r |-> 100 * RoundDiv(ArgsortRank(r, i) * 10000, n - 1)]
       \* r / max(r.max(), 1) * 100: 100 from r_raw = 1 on, 100 r below it
       ELSE [i \in DOMAIN r |-> IF r[i] >= 10000 THEN 1000000 ELSE 100 * r[i]]


(***************************************************************************)
(* Bounds of the model and the input universe                              *)
(***************************************************************************)
NumNpi == 2
MaxRuns == 2
MaxFaults == 3
MaxFailingBatches == 1
MaxBatchesArg == 1

\* retries=2 of process_npi_batch's @app.function
RETRIES == 2
\* max_containers=300
MAX_CONTAINERS == 300

NPIS == 1..NumNpi

TaxA == <<"2", "0", "7", "Q", "0", "0", "0", "0", "0", "X">>

\* payment histories a provider can have: rows without the npi
ProfileRows(p) ==
    CASE p = "steady"  ->
           {[year |-> 2023, program |-> "Medicare", payments |-> 1000,
             claims |-> 100, beneficiaries |-> 50, taxonomy |-> TaxA, state |-> "TX"]}
      [] p = "growing" ->
           {[year |-> 2022, program |-> "Medicaid", payments |-> 500,
             claims |-> 100, beneficiaries |-> 50, taxonomy |-> TaxA, state |-> "TX"],
            [year |-> 2023, program |-> "Medicare", payments |-> 4000,
             claims |-> 120, beneficiaries |-> 40, taxonomy |-> TaxA, state |-> "TX"]}
      [] OTHER -> {}

Profiles == <<"steady", "growing", "none">>

\* the populations: every choice of NumNpi profiles, up to the numbering of
\* the providers (main takes the ids in any order)
Populations ==
    {a \in [NPIS -> DOMAIN Profiles] : \A n \in NPIS : n > 1 => a[n - 1] <= a[n]}

\* the exclusions rows and the graph store's answer that go with a profile
ProfileExclusions(p) ==
    CASE p = "none"    -> {[reinstated |-> FALSE]}
      [] p = "growing" -> {[reinstated |-> TRUE]}
      [] OTHER -> {}

ProfileGraph(p) ==
    CASE p = "growing" ->
           [chain_provider_count |-> 2, chain_excluded_count |-> 1, owner_excluded_count |-> 1]
      [] OTHER ->
           [chain_provider_count |-> 0, chain_excluded_count |-> 0, owner_excluded_count |-> 0]

WithNpi(rows, n) == {[npi |-> n] @@ r : r \in rows}


(***************************************************************************)
(* State                                                                   *)
(***************************************************************************)
VARIABLES
    payments_all,          \* payments_combined (parquet on the volume / the view)
    providers_all,         \* providers table, a sequence of rows [npi]
    exclusions_all,        \* exclusions table
    graph,                 \* the graph store's answer per npi
    run,                   \* number of entrypoint invocations so far
    mainPc,                \* "idle", "map", "merge", "done" or "failed"
    merge_only,            \* the current invocation of main is --merge-only
    batches,               \* batch_index -> npi_batch of the current run
    batchState,            \* batch_index -> state of the batch
    retried,               \* batch_index -> retries used
    faults,                \* faults injected so far: failed attempts, graph errors
    returned,              \* batch_index -> NotReturned, EmptyPath or the chunk key
    collected,             \* batch indices whose result main has received
    results,               \* main's list of non-empty result paths
    output_chunks,         \* chunk store: chunk key -> rows
    final_file,            \* claidex_results_final.parquet, <<>> if absent
    provider_risk_scores,  \* the relational table: npi -> row
    neo4j_results,         \* batch_index -> the dict of the last attempt
    neo4j_raised_at,       \* batch_index -> records read when the graph section
                           \* raised, NotRaised if its last execution did not
    final_population,      \* npis the rows of final_file were calibrated over
    db_population,         \* npi -> npis its row of the table was calibrated over
    probe                  \* argument and results of a pure-function call

inputs == <<payments_all, providers_all, exclusions_all, graph>>
orchestration == <<mainPc, merge_only, batches, batchState, retried, faults, returned,
                   collected, results>>
stores == <<output_chunks, final_file, provider_risk_scores,
            final_population, db_population>>
vars == <<inputs, run, orchestration, stores, neo4j_results, neo4j_raised_at, probe>>

Empty == [x \in {} |-> 0]

\* the providers table of an assignment of profiles: one row per npi, and a
\* second row for npi 1 when dup
ProvidersTable(dup) ==
    [i \in 1..(NumNpi + (IF dup THEN 1 ELSE 0)) |-> [npi |-> IF i > NumNpi THEN 1 ELSE i]]

Init ==
    /\ \E pop \in Populations, dup \in BOOLEAN :
         LET assign == [n \in NPIS |-> Profiles[pop[n]]] IN
         /\ payments_all = UNION {WithNpi(ProfileRows(assign[n]), n) : n \in NPIS}
         /\ providers_all = ProvidersTable(dup)
         /\ exclusions_all = UNION {WithNpi(ProfileExclusions(assign[n]), n) : n \in NPIS}
         /\ graph = [n \in NPIS |-> ProfileGraph(assign[n])]
    /\ run = 0
    /\ mainPc = "idle"
    /\ merge_only = FALSE
    /\ batches = Empty
    /\ batchState = Empty
    /\ retried = Empty
    /\ faults = 0
    /\ returned = Empty
    /\ collected = {}
    /\ results = {}
    /\ output_chunks = Empty
    /\ final_file = <<>>
    /\ provider_risk_scores = Empty
    /\ neo4j_results = Empty
    /\ neo4j_raised_at = Empty
    /\ final_population = {}
    /\ db_population = Empty
    /\ probe = [fn |-> "none"]

(***************************************************************************)
(* main: partitioning and dispatch                                         *)
(***************************************************************************)
SeqRange(q) == {q[i] : i \in DOMAIN q}

\* the "" a batch without payment rows returns, and no return value yet
EmptyPath == 0 - 1
NotReturned == 0 - 2
\* failAt of a graph section that did not raise
NotRaised == 0 - 1

\* providers_df["npi"].unique().to_list(): the distinct ids in some order
UniqueLists(ids) ==
    {q \in [1..Cardinality(ids) -> ids] : SeqRange(q) = ids}

\* the quotient rounded down
FloorDiv(a, b) == a \div b

CeilDiv(a, b) == (a + b - 1) \div b

\* number of batches: ceil(total / batch_size), capped by max_batches > 0
BatchCount(total, batch_size, max_batches) ==
    IF max_batches > 0 THEN Min(CeilDiv(total, batch_size), max_batches)
    ELSE CeilDiv(total, batch_size)

\* slices that start one element early
SliceFromPrevious(all_npis, i, batch_size) ==
    SubSeq(all_npis, Max(1, i * batch_size), Min((i + 1) * batch_size, Len(all_npis)))

\* all_npis[i * batch_size : (i + 1) * batch_size]
Slice(all_npis, i, batch_size) ==
    SubSeq(all_npis, i * batch_size + 1, Min((i + 1) * batch_size, Len(all_npis)))

Partition(all_npis, batch_size, max_batches) ==
    [i \in 0..(BatchCount(Len(all_npis), batch_size, max_batches) - 1) |->
        Slice(all_npis, i, batch_size)]

\* main(batch_size, max_batches), full pipeline, up to the fan-out
MainStart(batch_size, max_batches, all_npis) ==
    /\ mainPc \in {"idle", "done", "failed"}
    /\ run < MaxRuns
    /\ run' = run + 1
    /\ mainPc' = "map"
    /\ merge_only' = FALSE
    /\ batches' = Partition(all_npis, batch_size, max_batches)
    /\ batchState' = [i \in DOMAIN batches' |-> "Pending"]
    /\ retried' = [i \in DOMAIN batches' |-> 0]
    /\ returned' = [i \in DOMAIN batches' |-> NotReturned]
    /\ neo4j_results' = [i \in DOMAIN batches' |-> Empty]
    /\ neo4j_raised_at' = [i \in DOMAIN batches' |-> NotRaised]
    /\ collected' = {}
    /\ results' = {}
    /\ UNCHANGED <<inputs, faults, stores, probe>>


(***************************************************************************)
(* process_npi_batch                                                       *)
(***************************************************************************)
\* one file name for every batch
SharedKey(batch_index) == 0

\* out_path: batch_{batch_index:06d}.parquet, one key per index
ChunkKey(batch_index) == batch_index

\* datetime.now() of an execution, to the granularity the model keeps: the
\* entrypoint invocation it belongs to
NowIso(r) == r

ZeroOwnership ==
    [ownership_chain_risk |-> 0, chain_excluded_count |-> 0, owner_excluded |-> FALSE]

\* the entry of neo4j_results built from one record of the batched query
RecordEntry(record) ==
    [ownership_chain_risk |-> compute_ownership_chain_risk(record),
     chain_excluded_count |-> record.chain_excluded_count,
     owner_excluded |-> record.owner_excluded_count > 0]

\* neo4j_results after the try/except of step 3.  failAt = NotRaised: the query
\* returned a record per item of the batch.  failAt = k >= 0: an exception
\* was raised after k records had been read (0: creating the driver, opening
\* the session or running the query raised); the handler then overwrites the
\* entry of every npi of the batch.
ReadRecords(npi_batch, g, k) ==
    [n \in {npi_batch[i] : i \in 1..k} |-> RecordEntry(g[n])]

\* a handler that fills in only the ids without an entry
Neo4jResultsKeepingRead(npi_batch, g, failAt) ==
    IF failAt = NotRaised THEN ReadRecords(npi_batch, g, Len(npi_batch))
    ELSE ReadRecords(npi_batch, g, failAt)
         @@ [n \in SeqRange(npi_batch) |-> ZeroOwnership]

Neo4jResults(npi_batch, g, failAt) ==
    IF failAt = NotRaised THEN ReadRecords(npi_batch, g, Len(npi_batch))
    ELSE [n \in SeqRange(npi_batch) |-> ZeroOwnership]

\* rows of providers_all whose npi is in the batch
FilterSeqNpi(q, npis) == SelectSeq(q, LAMBDA r : r.npi \in npis)

\* steps 4-7: the rows of the chunk, each with the placeholder score and label
\* rows labelled by the batch from its own r_raw
BatchLabelledRows(frame, now_iso) ==
    [k \in DOMAIN frame |->
        OutputRow(frame[k], frame[k].r_raw, risk_label(frame[k].r_raw), now_iso)]

\* the placeholder columns of step 7: risk_score = r_raw, risk_label = "Pending"
PendingRows(frame, now_iso) ==
    [k \in DOMAIN frame |-> OutputRow(frame[k], frame[k].r_raw, "Pending", now_iso)]

BatchFrame(ids, payments, providers, exclusions, nres) ==
    ScoreFrame(FilterNpi(payments, ids),
               FilterSeqNpi(providers, ids),
               FilterNpi(exclusions, ids),
               nres,
               {n \in DOMAIN nres : nres[n].owner_excluded})

BatchRows(npi_batch, payments, providers, exclusions, nres, now_iso) ==
    PendingRows(BatchFrame(SeqRange(npi_batch), payments, providers, exclusions, nres),
                now_iso)

InFlight == Cardinality({i \in DOMAIN batchState : batchState[i] = "Running"})

\* the platform starts (or restarts) a batch in a free container
BatchStart(i) ==
    /\ mainPc = "map"
    /\ batchState[i] \in {"Pending", "Retrying"}
    /\ InFlight < MAX_CONTAINERS
    /\ batchState' = [batchState EXCEPT ![i] = "Running"]
    /\ UNCHANGED <<inputs, run, mainPc, merge_only, batches, retried, faults, returned,
                   collected, results, stores, neo4j_results, neo4j_raised_at, probe>>

\* an empty shard written as an empty chunk whose path is returned
BatchEmptyWritesChunk(i) ==
    /\ mainPc = "map"
    /\ batchState[i] = "Running"
    /\ FilterNpi(payments_all, SeqRange(batches[i])) = {}
    /\ batchState' = [batchState EXCEPT ![i] = "Succeeded"]
    /\ returned' = [returned EXCEPT ![i] = ChunkKey(i)]
    /\ output_chunks' = (ChunkKey(i) :> <<>>) @@ output_chunks
    /\ UNCHANGED <<inputs, run, mainPc, merge_only, batches, retried, faults,
                   collected, results, final_file, provider_risk_scores,
                   final_population, db_population, neo4j_results, neo4j_raised_at, probe>>

\* the shard has no payment rows: returns "" and writes nothing
BatchEmpty(i) ==
    /\ mainPc = "map"
    /\ batchState[i] = "Running"
    /\ FilterNpi(payments_all, SeqRange(batches[i])) = {}
    /\ batchState' = [batchState EXCEPT ![i] = "Succeeded"]
    /\ returned' = [returned EXCEPT ![i] = EmptyPath]
    /\ UNCHANGED <<inputs, run, mainPc, merge_only, batches, retried, faults,
                   collected, results, stores, neo4j_results, neo4j_raised_at, probe>>

\* the body of process_npi_batch up to the committed chunk write
WriteChunk(i, failAt) ==
    /\ neo4j_results' = [neo4j_results EXCEPT ![i] = Neo4jResults(batches[i], graph, failAt)]
    /\ neo4j_raised_at' = [neo4j_raised_at EXCEPT ![i] = failAt]
    /\ output_chunks' =
         (ChunkKey(i) :> BatchRows(batches[i], payments_all, providers_all,
                                   exclusions_all, neo4j_results'[i], NowIso(run)))
         @@ output_chunks

\* a run of process_npi_batch to its return: one batched graph query (which
\* may raise), the chunk write, the returned path
BatchSucceed(i, failAt) ==
    /\ mainPc = "map"
    /\ batchState[i] = "Running"
    /\ FilterNpi(payments_all, SeqRange(batches[i])) # {}
    /\ failAt \in NotRaised..Len(batches[i])
    /\ failAt # NotRaised => faults < MaxFaults
    /\ faults' = IF failAt # NotRaised THEN faults + 1 ELSE faults
    /\ WriteChunk(i, failAt)
    /\ batchState' = [batchState EXCEPT ![i] = "Succeeded"]
    /\ returned' = [returned EXCEPT ![i] = ChunkKey(i)]
    /\ UNCHANGED <<inputs, run, mainPc, merge_only, batches, retried,
                   collected, results, final_file, provider_risk_scores,
                   final_population, db_population, probe>>

\* an attempt ends without returning (worker crash, timeout kill, an
\* exception outside the graph section) before it wrote anything
BatchCrash(i) ==
    /\ mainPc = "map"
    /\ batchState[i] = "Running"
    /\ faults < MaxFaults
    /\ Cardinality({i} \cup {j \in DOMAIN batches :
                        retried[j] > 0 \/ batchState[j] = "Failed"}) <= MaxFailingBatches
    /\ faults' = faults + 1
    /\ batchState' = [batchState EXCEPT ![i] = "Failed"]
    /\ UNCHANGED <<inputs, run, mainPc, merge_only, batches, retried, returned,
                   collected, results, stores, neo4j_results, neo4j_raised_at, probe>>

\* an attempt ends without returning after write_parquet: volume.commit()
\* raises or the timeout kills the container past the write.  (A graph
\* error is handled inside the attempt; the attempt that fails here is one
\* whose graph section answered, a failure after a handled graph error
\* being a second, independent fault.)
BatchCrashAfterWrite(i) ==
    /\ mainPc = "map"
    /\ batchState[i] = "Running"
    /\ FilterNpi(payments_all, SeqRange(batches[i])) # {}
    /\ faults < MaxFaults
    /\ Cardinality({i} \cup {j \in DOMAIN batches :
                        retried[j] > 0 \/ batchState[j] = "Failed"}) <= MaxFailingBatches
    /\ faults' = faults + 1
    /\ WriteChunk(i, NotRaised)
    /\ batchState' = [batchState EXCEPT ![i] = "Failed"]
    /\ UNCHANGED <<inputs, run, mainPc, merge_only, batches, retried, returned,
                   collected, results, final_file, provider_risk_scores,
                   final_population, db_population, probe>>

\* the platform schedules a retry while the retry budget lasts
BatchRetry(i) ==
    /\ mainPc = "map"
    /\ batchState[i] = "Failed"
    /\ retried[i] < RETRIES
    /\ retried' = [retried EXCEPT ![i] = @ + 1]
    /\ batchState' = [batchState EXCEPT ![i] = "Retrying"]
    /\ UNCHANGED <<inputs, run, mainPc, merge_only, batches, faults, returned,
                   collected, results, stores, neo4j_results, neo4j_raised_at, probe>>

\* a batch is terminally failed: failed with the retry budget used up
TerminalFailed(i) == batchState[i] = "Failed" /\ retried[i] = RETRIES


(***************************************************************************)
(* merge_results                                                           *)
(***************************************************************************)
\* pl.concat of the chunks read in sorted(glob(...)) order
RECURSIVE ConcatChunks(_, _)
ConcatChunks(chunks, keys) ==
    IF keys = <<>> THEN <<>>
    ELSE chunks[Head(keys)] \o ConcatChunks(chunks, Tail(keys))

\* the chunks read in descending key order
ReadChunksReversed(chunks) ==
    ConcatChunks(chunks, [k \in 1..Cardinality(DOMAIN chunks) |->
        SetToSortedSeq(DOMAIN chunks)[Cardinality(DOMAIN chunks) + 1 - k]])

ReadChunks(chunks) == ConcatChunks(chunks, SetToSortedSeq(DOMAIN chunks))

\* _risk_label of merge_results: its own scan of LABEL_THRESHOLDS
RECURSIVE MergeLabelScan(_, _)
MergeLabelScan(score, i) ==
    IF i > Len(LABEL_THRESHOLDS) THEN "Low"
    ELSE IF score >= LABEL_THRESHOLDS[i][1] THEN LABEL_THRESHOLDS[i][2]
    ELSE MergeLabelScan(score, i + 1)
\* a scan with exclusive boundaries
StrictLabel(score) ==
    IF score > 800000 THEN "High" ELSE IF score > 600000 THEN "Elevated"
    ELSE IF score > 300000 THEN "Moderate" ELSE "Low"
_risk_label(score) == IF score = NaN THEN "Low" ELSE MergeLabelScan(score, 1)

\* df.sort("npi"): rows of equal npi keep their order
RECURSIVE SortRowsIdx(_, _)
SortRowsIdx(df, I) ==
    IF I = {} THEN <<>>
    ELSE LET i == CHOOSE x \in I : \A y \in I :
                     df[x].npi < df[y].npi \/ (df[x].npi = df[y].npi /\ x <= y)
         IN <<df[i]>> \o SortRowsIdx(df, I \ {i})
SortByNpi(df) == SortRowsIdx(df, DOMAIN df)

\* a merge that also stores the calibrated score as r_raw
RecalibratedRaw(row, score) ==
    [row EXCEPT !.risk_score = score, !.risk_label = _risk_label(score), !.r_raw = score]

\* the with_columns of merge_results: only risk_score and risk_label change
Recalibrated(row, score) ==
    [row EXCEPT !.risk_score = score, !.risk_label = _risk_label(score)]

\* the final frame merge_results computes from the chunk store
WithCalibrated(df, calibrated) ==
    [i \in DOMAIN df |-> Recalibrated(df[i], calibrated[i])]
CalibratedFrame(df) == WithCalibrated(df, Calibrate([i \in DOMAIN df |-> df[i].r_raw]))
\* a merge that keeps the first row of every provider id
MergeFrameUniqueNpi(chunks) ==
    SortByNpi(CalibratedFrame(
        SelectSeq(ReadChunks(chunks),
                  LAMBDA r : r = (CHOOSE q \in SeqRange(ReadChunks(chunks)) : q.npi = r.npi))))

\* a merge whose glob also matches the final file of the previous merge
MergeFrameOverPrevious(chunks) ==
    SortByNpi(CalibratedFrame(ReadChunks(chunks) \o final_file))
MergeFrame(chunks) == SortByNpi(CalibratedFrame(ReadChunks(chunks)))

\* execute_batch of INSERT .. ON CONFLICT (npi) DO UPDATE: the last row of an
\* npi wins
RECURSIVE Upsert(_, _)
Upsert(table, rows) ==
    IF rows = <<>> THEN table
    ELSE Upsert((Head(rows).npi :> Head(rows)) @@ table, Tail(rows))

RowNpis(df) == {df[i].npi : i \in DOMAIN df}

\* merge_results(upsert_to_db): no chunk, no output; otherwise the final file
\* and, when asked, the upsert
MergeResults(upsert_to_db) ==
    IF DOMAIN output_chunks = {}
    THEN UNCHANGED stores
    ELSE /\ final_file' = MergeFrame(output_chunks)
         /\ final_population' = RowNpis(final_file')
         /\ provider_risk_scores' =
              IF upsert_to_db THEN Upsert(provider_risk_scores, final_file')
              ELSE provider_risk_scores
         /\ db_population' =
              IF upsert_to_db
              THEN [n \in final_population' |-> final_population'] @@ db_population
              ELSE db_population
         /\ UNCHANGED output_chunks

(***************************************************************************)
(* main: collecting the results and the merge step                         *)
(***************************************************************************)
\* the starmap generator yields the result of a finished batch
MainCollect(i) ==
    /\ mainPc = "map"
    /\ batchState[i] = "Succeeded"
    /\ i \notin collected
    /\ collected' = collected \cup {i}
    /\ results' = IF returned[i] # EmptyPath THEN results \cup {returned[i]} ELSE results
    /\ UNCHANGED <<inputs, run, mainPc, merge_only, batches, batchState, retried, faults,
                   returned, stores, neo4j_results, neo4j_raised_at, probe>>

\* the starmap generator raises the exception of a batch that failed for
\* good (return_exceptions is left False); main does not catch it, the
\* local entrypoint ends and with it the app: no container of the run
\* starts or finishes an attempt afterwards
MainRaise ==
    /\ mainPc = "map"
    /\ \E i \in DOMAIN batches : TerminalFailed(i)
    /\ mainPc' = "failed"
    /\ UNCHANGED <<inputs, run, merge_only, batches, batchState, retried, faults,
                   returned, collected, results, stores, neo4j_results,
                   neo4j_raised_at, probe>>

\* a loop that ends with the first result
SomeResultYielded == collected # {}

\* the for loop over starmap's results ends: every input has yielded
StarmapExhausted == collected = DOMAIN batches

\* main leaves the loop and calls merge_results.remote
MainCallMerge ==
    /\ mainPc = "map"
    /\ StarmapExhausted
    /\ mainPc' = "merge"
    /\ UNCHANGED <<inputs, run, merge_only, batches, batchState, retried, faults,
                   returned, collected, results, stores, neo4j_results,
                   neo4j_raised_at, probe>>

\* merge_results.remote(upsert_to_db=upsert_to_db) runs and main prints the
\* final path; upsert_to_db, an argument of main that nothing reads before
\* this call, is drawn here
MergeRun(upsert_to_db) ==
    /\ mainPc = "merge"
    /\ MergeResults(upsert_to_db)
    /\ mainPc' = "done"
    /\ UNCHANGED <<inputs, run, merge_only, batches, batchState, retried, faults,
                   returned, collected, results, neo4j_results, neo4j_raised_at, probe>>

\* main(merge_only=True): merge_results on whatever the chunk store holds
MainMergeOnly(upsert_to_db) ==
    /\ mainPc \in {"idle", "done", "failed"}
    /\ run < MaxRuns
    /\ run' = run + 1
    /\ merge_only' = TRUE
    /\ MergeResults(upsert_to_db)
    /\ mainPc' = "done"
    /\ UNCHANGED <<inputs, batches, batchState, retried, faults, returned,
                   collected, results, neo4j_results, neo4j_raised_at, probe>>


(***************************************************************************)
(* risk_scores.run: the single-process pipeline (local / Docker)           *)
(***************************************************************************)
WINDOW_YEARS == 5
\* datetime.now(timezone.utc).year at the time of the runs
CurYear == 2026

\* load_payments(conn, npis): the trailing window, optionally only npis
load_payments(npis) ==
    {r \in payments_all :
        /\ r.year >= CurYear - WINDOW_YEARS
        /\ (npis = {} \/ r.npi \in npis)}

\* compute_composite(scores): r_raw (already in the frame), the calibration
\* over the rows of the frame and risk_label
CompositeRows(frame, calibrated, now_iso) ==
    [i \in DOMAIN frame |->
        OutputRow(frame[i], calibrated[i], risk_label(calibrated[i]), now_iso)]
compute_composite(frame, now_iso) ==
    CompositeRows(frame, Calibrate([i \in DOMAIN frame |-> frame[i].r_raw]), now_iso)

\* ownership rows of run: zeros without a driver; else one query per npi,
\* a failed query answering zeros (query_neo4j_ownership's except)
RunOwnership(all_npis, driverUp, failed) ==
    [n \in all_npis |->
        IF driverUp /\ n \notin failed THEN RecordEntry(graph[n]) ELSE ZeroOwnership]

\* steps 2-8 of _run_pipeline on the loaded payments
RunFrame(payments, all_npis, own) ==
    ScoreFrame(payments,
               FilterSeqNpi(providers_all, all_npis),
               FilterNpi(exclusions_all, all_npis),
               own,
               {n \in all_npis : own[n].owner_excluded})

RunRowsOf(payments, all_npis, driverUp, failed, now_iso) ==
    compute_composite(RunFrame(payments, all_npis,
                               RunOwnership(all_npis, driverUp, failed)),
                      now_iso)

RunRows(payments, driverUp, failed, now_iso) ==
    RunRowsOf(payments, NpisOf(payments), driverUp, failed, now_iso)

\* run(npis, dry_run); npis = {} stands for None (no filter)
LocalRun(npis, dry_run, driverUp, failed) ==
    /\ mainPc \in {"idle", "done", "failed"}
    /\ run < MaxRuns
    /\ run' = run + 1
    /\ IF load_payments(npis) = {} \/ dry_run
       THEN UNCHANGED <<provider_risk_scores, db_population>>
       ELSE /\ provider_risk_scores' =
                 Upsert(provider_risk_scores,
                        RunRows(load_payments(npis), driverUp, failed, NowIso(run')))
            /\ db_population' =
                 [n \in NpisOf(load_payments(npis)) |-> NpisOf(load_payments(npis))]
                 @@ db_population
    /\ UNCHANGED <<inputs, orchestration, output_chunks, final_file, final_population,
                   neo4j_results, neo4j_raised_at, probe>>

(***************************************************************************)
(* Specification of the pipeline                                           *)
(***************************************************************************)
Next ==
    \/ \E bs \in 1..NumNpi, mb \in 0..MaxBatchesArg,
          all_npis \in UniqueLists(SeqRange([i \in DOMAIN providers_all |-> providers_all[i].npi])) :
          MainStart(bs, mb, all_npis)
    \/ \E i \in DOMAIN batches : BatchStart(i)
    \/ \E i \in DOMAIN batches : BatchEmpty(i)
    \/ \E i \in DOMAIN batches, failAt \in NotRaised..NumNpi : BatchSucceed(i, failAt)
    \/ \E i \in DOMAIN batches : BatchCrash(i)
    \/ \E i \in DOMAIN batches : BatchCrashAfterWrite(i)
    \/ \E i \in DOMAIN batches : BatchRetry(i)
    \/ \E i \in DOMAIN batches : MainCollect(i)
    \/ MainRaise
    \/ MainCallMerge
    \/ \E up \in BOOLEAN : MergeRun(up)
    \/ \E up \in BOOLEAN : MainMergeOnly(up)

Spec == Init /\ [][Next]_vars

\* the control state of a run; every step of a started run changes it
control == <<mainPc, batchState, retried, collected>>

\* an attempt of batch i ends: the step of BatchEmpty, BatchSucceed,
\* BatchCrash or BatchCrashAfterWrite as seen on the control state.  One of them is enabled
\* whenever the batch is Running (BatchEmpty on an empty shard, otherwise
\* BatchSucceed with the graph store answering).
AttemptEnds(i) ==
    /\ mainPc = "map"
    /\ batchState[i] = "Running"
    /\ \E st \in {"Succeeded", "Failed"} : batchState' = [batchState EXCEPT ![i] = st]
    /\ UNCHANGED <<mainPc, retried, collected>>

\* merge_results returns to main: the step of MergeRun on the control state
MergeReturns ==
    /\ mainPc = "merge"
    /\ mainPc' = "done"
    /\ UNCHANGED <<batchState, retried, collected>>

\* the steps the platform and main's loop take on their own once a run has
\* started: the scheduler starts and restarts batches, an attempt ends, the
\* generator yields or raises, main calls merge and merge returns
RunSteps ==
    \/ \E i \in DOMAIN batches : BatchStart(i) \/ AttemptEnds(i) \/ BatchRetry(i) \/ MainCollect(i)
    \/ MainRaise
    \/ MainCallMerge
    \/ MergeReturns

\* a started run is carried on; starting a run is the operator's choice
SpecFair == Spec /\ WF_control(RunSteps)

(***************************************************************************)
(* Specification of the single-process deployment                          *)
(***************************************************************************)
NextLocal ==
    \E npis \in SUBSET NPIS, dry \in BOOLEAN, driverUp \in BOOLEAN, failed \in SUBSET NPIS :
        LocalRun(npis, dry, driverUp, failed)

SpecLocal == Init /\ [][NextLocal]_vars

(***************************************************************************)
(* Specification of the label functions: one call of risk_label and of     *)
(* merge_results' _risk_label on the same score                            *)
(***************************************************************************)
\* scores 0.00 .. ScoreGrid / 100, the two decimals a calibrated score has
ScoreGrid == 10000

\* the grid, and the values next to each threshold that are off the grid
LabelScores ==
    {100 * k : k \in 0..ScoreGrid}
    \cup {LABEL_THRESHOLDS[i][1] + d : i \in 1..3, d \in {0 - 1, 1}}

ProbeLabel(score) ==
    /\ probe.fn = "none"
    /\ probe' = [fn |-> "risk_label", score |-> score,
                 label |-> risk_label(score), merge_label |-> _risk_label(score)]
    /\ UNCHANGED <<inputs, run, orchestration, stores, neo4j_results, neo4j_raised_at>>

\* one call in a behaviour
NextLabel ==
    \E score \in (IF probe.fn = "none" THEN LabelScores ELSE {}) : ProbeLabel(score)

SpecLabel == Init /\ [][NextLabel]_vars

(***************************************************************************)
(* Specification of the scorers: one call of one scoring function on       *)
(* arguments drawn from a grid                                             *)
(***************************************************************************)
\* component scores in 1/100: the ends of [0, 100], their neighbours and
\* values between
ComponentScores == {0, 1, 3333, 5000, 9999, 10000}

\* the r_raw expression of compute_composite and of process_npi_batch
ProbeRaw(b, o, t, e, p) ==
    /\ probe.fn = "none"
    /\ probe' = [fn |-> "r_raw", components |-> <<b, o, t, e, p>>,
                 r_raw |-> RawScore(b, o, t, e, p)]
    /\ UNCHANGED <<inputs, run, orchestration, stores, neo4j_results, neo4j_raised_at>>

\* generate_flags on scores on either side of each rule's threshold
ProbeFlags(b, pct, o, t, e, p, cec, top) ==
    /\ probe.fn = "none"
    /\ probe' = [fn |-> "generate_flags", billing_outlier_score |-> b,
                 billing_outlier_percentile |-> pct, ownership_chain_risk |-> o,
                 payment_trajectory_score |-> t, exclusion_proximity_score |-> e,
                 program_concentration_score |-> p,
                 flags |-> generate_flags(b, pct, o, t, e, p, cec, top)]
    /\ UNCHANGED <<inputs, run, orchestration, stores, neo4j_results, neo4j_raised_at>>

\* compute_exclusion_proximity on the providers NPIS with any exclusion
\* records, owner-excluded set and chain counts
ProbeExclusion(exclusions_df, chain_excluded, owner_excluded) ==
    /\ probe.fn = "none"
    /\ probe' = [fn |-> "compute_exclusion_proximity",
                 exclusions_df |-> exclusions_df, chain_excluded |-> chain_excluded,
                 owner_excluded |-> owner_excluded,
                 providers_df |-> [i \in 1..NumNpi |-> [npi |-> i]],
                 out |-> compute_exclusion_proximity(
                            exclusions_df, [i \in 1..NumNpi |-> [npi |-> i]],
                            chain_excluded, owner_excluded)]
    /\ UNCHANGED <<inputs, run, orchestration, stores, neo4j_results, neo4j_raised_at>>

\* cents in a dollar: the payments of the concentration probe are in cents
Cents == 100

\* the recent totals, in cents, of a provider's two programs
ProgramTotals == {0, 60, 2500, 4000, 5000, 6000, 7500, 10000}

\* the concentration score of a provider with the recent totals medicare
\* and medicaid
ProbeConcentration(medicare, medicaid) ==
    /\ probe.fn = "none"
    /\ probe' = [fn |-> "compute_program_concentration",
                 top |-> Max(medicare, medicaid), grand_total |-> medicare + medicaid,
                 program_concentration_score |->
                     ShareScore(Max(medicare, medicaid), medicare + medicaid, Cents)]
    /\ UNCHANGED <<inputs, run, orchestration, stores, neo4j_results, neo4j_raised_at>>

\* peer values in units of 1e-10: none, identical, a MAD of 0, a MAD below
\* 1e-9, and MADs from 1e-9 up
ZValues ==
    {<<>>, <<50, 50, 50>>, <<50, 50, 53>>, <<48, 50, 53>>, <<10, 20, 30, 40, 50>>,
     <<10, 30, 50, 70, 90>>, <<0, 1000>>}

ZTargets == {NaN, 0 - 1000000, 0, 10, 30, 48, 50, 51, 52, 60, 90, 500, 1000000}

ProbeZscore(values, target) ==
    /\ probe.fn = "none"
    /\ probe' = [fn |-> "robust_zscore", values |-> values, target |-> target,
                 z |-> robust_zscore(values, target)]
    /\ UNCHANGED <<inputs, run, orchestration, stores, neo4j_results, neo4j_raised_at>>

\* longest id list of the partition probe
MaxIds == 5

\* main's split of the distinct ids all_npis into (i, slice) pairs
ProbePartition(all_npis, batch_size, max_batches) ==
    /\ probe.fn = "none"
    /\ probe' = [fn |-> "partition", all_npis |-> all_npis, batch_size |-> batch_size,
                 max_batches |-> max_batches,
                 batches |-> Partition(all_npis, batch_size, max_batches)]
    /\ UNCHANGED <<inputs, run, orchestration, stores, neo4j_results, neo4j_raised_at>>

\* component values of the one-row probe, around r_raw = 1
OneRowComponents == {0, 1, 50, 99, 100, 101, 2999, 3000, 8000, 10000}

\* the scores frame of one provider whose five components are all c
OneRowFrame(c) ==
    <<[npi |-> 1,
       r_raw |-> RawScore(c, c, c, c, c),
       billing_outlier_score |-> c,
       billing_outlier_percentile |-> 5000,
       ownership_chain_risk |-> c,
       payment_trajectory_score |-> c,
       payment_trajectory_zscore |-> 0,
       exclusion_proximity_score |-> c,
       program_concentration_score |-> c,
       chain_excluded_count |-> 0,
       top_program |-> "Medicare",
       peer_taxonomy |-> TaxA,
       peer_state |-> "TX",
       peer_count |-> 200,
       data_window_years |-> <<2023>>]>>

\* compute_composite on a frame of one row, and merge_results on a chunk
\* store whose only chunk holds that row
ProbeOneRow(c) ==
    /\ probe.fn = "none"
    /\ probe' = [fn |-> "one_row", r_raw |-> OneRowFrame(c)[1].r_raw,
                 composite |-> compute_composite(OneRowFrame(c), NowIso(1)),
                 merged |-> MergeFrame(ChunkKey(0) :> PendingRows(OneRowFrame(c), NowIso(1)))]
    /\ UNCHANGED <<inputs, run, orchestration, stores, neo4j_results, neo4j_raised_at>>

\* payment tables of the peer-metrics probe: per provider no row, a row
\* below PEER_MIN_CLAIMS or an eligible row, all of one taxonomy, state, year
PeerProbeRow(n, claims) ==
    [npi |-> n, year |-> 2023, program |-> "Medicare", payments |-> 1000 * n,
     claims |-> claims, beneficiaries |-> 50, taxonomy |-> TaxA, state |-> "TX"]

PeerProbeTables ==
    {UNION {IF c[n] = 0 THEN {} ELSE {PeerProbeRow(n, c[n])} : n \in 1..3} :
        c \in [1..3 -> {0, PEER_MIN_CLAIMS - 1, PEER_MIN_CLAIMS, 100}]}

ProbePeerMetrics(payments) ==
    /\ probe.fn = "none"
    /\ probe' = [fn |-> "compute_peer_metrics", payments |-> payments,
                 peer_metrics |-> compute_peer_metrics(payments)]
    /\ UNCHANGED <<inputs, run, orchestration, stores, neo4j_results, neo4j_raised_at>>

\* payment tables of the recent-window probe: provider 1 with rows in some
\* of three years, provider 2 with no row or one row in an early or a late year
WindowProbeRow(n, year, program, payments) ==
    [npi |-> n, year |-> year, program |-> program, payments |-> payments,
     claims |-> 100, beneficiaries |-> 50, taxonomy |-> TaxA, state |-> "TX"]

WindowProbeTables ==
    {own \cup other :
        own \in (SUBSET {WindowProbeRow(1, 2020, "Medicare", 1000),
                         WindowProbeRow(1, 2021, "Medicaid", 3000),
                         WindowProbeRow(1, 2023, "Medicare", 1000)}) \ {{}},
        other \in {{}, {WindowProbeRow(2, 2020, "Medicaid", 500)},
                       {WindowProbeRow(2, 2023, "Medicaid", 500)}}}

ProbeConcentrationWindow(payments) ==
    /\ probe.fn = "none"
    /\ probe' = [fn |-> "concentration_window", payments |-> payments,
                 scores |-> compute_program_concentration(payments)]
    /\ UNCHANGED <<inputs, run, orchestration, stores, neo4j_results, neo4j_raised_at>>

\* the growth rows of compute_trajectory_score and the joined scores of a
\* batch on the same payments, the graph store answering zeros
ProbeTrajectory(payments) ==
    /\ probe.fn = "none"
    /\ probe' = [fn |-> "compute_trajectory_score", payments |-> payments,
                 npi_yearly |-> GrowthRows(compute_peer_metrics(payments)),
                 scores |-> ScoreFrame(payments, [i \in 1..2 |-> [npi |-> i]], {},
                                       [n \in 1..2 |-> ZeroOwnership], {})]
    /\ UNCHANGED <<inputs, run, orchestration, stores, neo4j_results, neo4j_raised_at>>

\* payment tables of the batch probe: provider 1 with negative, zero or
\* positive payments, with or without claims and beneficiaries; provider 2
\* absent, an eligible peer of provider 1, or with negative payments
BatchProbeTables ==
    {{[PeerProbeRow(1, c) EXCEPT !.payments = pay, !.beneficiaries = ben]} \cup other :
        pay \in {0 - 1000, 0, 1000}, c \in {0, 100}, ben \in {0, 50},
        other \in {{}, {PeerProbeRow(2, 100)},
                       {[PeerProbeRow(2, 100) EXCEPT !.payments = 0 - 500]}}}

\* the rows process_npi_batch writes for the batch <<1, 2>> on the
\* payments, with no exclusions and the graph store answering zeros
ProbeBatchRows(payments) ==
    /\ probe.fn = "none"
    /\ probe' = [fn |-> "process_npi_batch", payments |-> payments,
                 rows |-> BatchRows(<<1, 2>>, payments, [i \in 1..2 |-> [npi |-> i]], {},
                                    [n \in 1..2 |-> ZeroOwnership], NowIso(1))]
    /\ UNCHANGED <<inputs, run, orchestration, stores, neo4j_results, neo4j_raised_at>>

\* one call in a behaviour
NextScorers ==
    \/ \E b, o, t, e, p \in (IF probe.fn = "none" THEN ComponentScores ELSE {}) :
          ProbeRaw(b, o, t, e, p)
    \/ \E b \in {7999, 8000}, pct \in {9499, 9500}, o \in {4999, 5000}, t \in {5999, 6000},
          e \in {7999, 8000}, p \in {5999, 6000}, cec \in {1, 2}, top \in {"", "Medicare"} :
          ProbeFlags(b, pct, o, t, e, p, cec, top)
    \/ \E exclusions_df \in (IF probe.fn = "none"
                             THEN SUBSET [npi : NPIS, reinstated : BOOLEAN] ELSE {}),
          keys \in SUBSET NPIS, owner_excluded \in SUBSET NPIS :
          \E chain_excluded \in [keys -> {0, 2}] :
             ProbeExclusion(exclusions_df, chain_excluded, owner_excluded)
    \/ \E medicare, medicaid \in (IF probe.fn = "none" THEN ProgramTotals ELSE {}) :
          ProbeConcentration(medicare, medicaid)
    \/ \E values \in (IF probe.fn = "none" THEN ZValues ELSE {}), target \in ZTargets :
          ProbeZscore(values, target)
    \/ \E total \in (IF probe.fn = "none" THEN 0..MaxIds ELSE {}),
          batch_size \in 1..(MaxIds + 1), max_batches \in 0..MaxBatchesArg :
          ProbePartition([k \in 1..total |-> k], batch_size, max_batches)
    \/ \E c \in (IF probe.fn = "none" THEN OneRowComponents ELSE {}) : ProbeOneRow(c)
    \/ \E payments \in (IF probe.fn = "none" THEN PeerProbeTables ELSE {}) :
          ProbePeerMetrics(payments)
    \/ \E payments \in (IF probe.fn = "none" THEN WindowProbeTables ELSE {}) :
          ProbeConcentrationWindow(payments)
    \/ \E payments \in (IF probe.fn = "none" THEN WindowProbeTables ELSE {}) :
          ProbeTrajectory(payments)
    \/ \E payments \in (IF probe.fn = "none" THEN BatchProbeTables ELSE {}) :
          ProbeBatchRows(payments)

SpecScorers == Init /\ [][NextScorers]_vars

(***************************************************************************)
(* State functions the properties are stated with                          *)
(***************************************************************************)
\* the ids of the providers table
ProviderIds == {providers_all[i].npi : i \in DOMAIN providers_all}
UniqueProviderIds == Cardinality(ProviderIds) = Len(providers_all)

\* ids with at least one payment row
PaidIds == NpisOf(payments_all)

BatchIds(i) == SeqRange(batches[i])

\* the rows of all chunks of the store, of the final file, of the table
ChunkRows == UNION {SeqRange(output_chunks[k]) : k \in DOMAIN output_chunks}
FinalRows == SeqRange(final_file)
TableRows == {provider_risk_scores[n] : n \in DOMAIN provider_risk_scores}

\* every chunk of the store was written by the current invocation: the
\* store was empty when it started, or it has overwritten all of it
OnlyChunksOfThisRun == \A r \in ChunkRows : r.updated_at = NowIso(run)

\* the full pipeline (not --merge-only) has run to its end
FullPipelineDone == mainPc = "done" /\ ~merge_only

FinalLabels == {"Low", "Moderate", "Elevated", "High"}

\* the ids the current run dispatched
Dispatched == UNION {BatchIds(i) : i \in DOMAIN batches}

\* a batch that has payment rows and no chunk in the store
ChunkMissing(i) ==
    BatchIds(i) \cap PaidIds # {} /\ ChunkKey(i) \notin DOMAIN output_chunks

\* the final frame of the whole population run as the single batch 0, the
\* graph store answering
SingleBatchFinal ==
    MergeFrame(ChunkKey(0) :>
        BatchRows(SetToSortedSeq(ProviderIds), payments_all, providers_all,
                  exclusions_all,
                  Neo4jResults(SetToSortedSeq(ProviderIds), graph, NotRaised),
                  NowIso(run)))

\* per provider: r_raw, the calibrated score and the label
ScoresOf(df) ==
    {<<df[k].npi, df[k].r_raw, df[k].risk_score, df[k].risk_label>> : k \in DOMAIN df}

RawOf(df) == [k \in DOMAIN df |-> df[k].r_raw]
MinRaw(df) == CHOOSE x \in SeqRange(RawOf(df)) : \A y \in SeqRange(RawOf(df)) : x <= y
MaxRaw(df) == CHOOSE x \in SeqRange(RawOf(df)) : \A y \in SeqRange(RawOf(df)) : y <= x

\* r_raw(a) < r_raw(b) implies risk_score(a) <= risk_score(b)
Monotone(df) ==
    \A a, b \in DOMAIN df :
        df[a].r_raw < df[b].r_raw => df[a].risk_score <= df[b].risk_score

\* a row without the two columns merge_results sets
WithoutScoreAndLabel(row) ==
    [c \in DOMAIN row \ {"risk_score", "risk_label"} |-> row[c]]

(***************************************************************************)
(* Properties                                                              *)
(***************************************************************************)
\* C10: the label is the step function of the score with inclusive lower
\* boundaries 30 / 60 / 80 (High from 80, Elevated in [60, 80), Moderate in
\* [30, 60), Low below 30), and merge_results' _risk_label gives the label
\* risk_label gives, for every probed score
C10_LabelStepFunction ==
    probe.fn = "risk_label" =>
        /\ probe.label =
             (IF probe.score >= 800000 THEN "High"
              ELSE IF probe.score >= 600000 THEN "Elevated"
              ELSE IF probe.score >= 300000 THEN "Moderate"
              ELSE "Low")
        /\ probe.merge_label = probe.label

\* a score exactly on the boundary 80 was labelled High by both functions
C10_Witness ==
    /\ probe.fn = "risk_label"
    /\ probe.score = 800000
    /\ probe.label = "High"
    /\ probe.merge_label = "High"

\* C2: in the full pipeline merge_results starts only when every dispatched
\* batch has succeeded (returned its chunk path or the empty result): while
\* main is at or past the merge call no batch is Pending, Running, Retrying
\* or Failed
C2_MergeAfterAllBatches ==
    (mainPc \in {"merge", "done"} /\ ~merge_only) =>
        \A i \in DOMAIN batches :
            /\ batchState[i] = "Succeeded"
            /\ returned[i] \in {ChunkKey(i), EmptyPath}
            /\ i \in collected

\* main reached the merge call of a run of two batches, one of which was
\* retried
C2_Witness ==
    /\ mainPc = "merge"
    /\ Cardinality(DOMAIN batches) = 2
    /\ \E i \in DOMAIN batches : retried[i] > 0

\* C4: after a full-pipeline run whose chunk store holds only chunks of
\* this run (it started empty), over a providers table with unique ids,
\* every provider id with a row in some chunk has exactly one row in the
\* final file, and the final file has no other id
C4_ExactlyOneFinalRow ==
    (FullPipelineDone /\ OnlyChunksOfThisRun /\ UniqueProviderIds) =>
        /\ \A n \in NpisOf(ChunkRows) :
              Cardinality({k \in DOMAIN final_file : final_file[k].npi = n}) = 1
        /\ NpisOf(FinalRows) = NpisOf(ChunkRows)

\* the first run, two batches with a chunk each, two rows in the final file
C4_Witness ==
    /\ FullPipelineDone /\ run = 1 /\ UniqueProviderIds
    /\ Cardinality(DOMAIN output_chunks) = 2
    /\ Len(final_file) = 2

\* C5: a step that writes the final file takes every row from a chunk and
\* changes nothing of it but risk_score and risk_label: r_raw, the component
\* scores, the diagnostics, flags, components and updated_at are the batch's
C5_MergeChangesOnlyScoreAndLabel ==
    [][final_file' # final_file =>
         /\ {WithoutScoreAndLabel(r) : r \in SeqRange(final_file')}
              = {WithoutScoreAndLabel(r) : r \in ChunkRows}
         /\ \A r \in SeqRange(final_file') :
              \E c \in ChunkRows : r = [c EXCEPT !.risk_score = r.risk_score,
                                                 !.risk_label = r.risk_label]]_vars

\* a final file in which merge has changed a score and a label
C5_Witness ==
    \E r \in FinalRows : r.risk_score # r.r_raw /\ r.risk_label # "Pending"

\* C6: every row of a chunk has the label "Pending" and risk_score = r_raw;
\* every row of the final file and of the table has one of the four labels
C6_PendingOnlyInChunks ==
    /\ \A r \in ChunkRows : r.risk_label = "Pending" /\ r.risk_score = r.r_raw
    /\ \A r \in FinalRows \cup TableRows : r.risk_label \in FinalLabels

\* chunks, a final file and an upserted table exist
C6_Witness ==
    /\ ChunkRows # {} /\ FinalRows # {} /\ TableRows # {}
    /\ \E r \in TableRows : r.risk_label = "High"

C1_BatchMergeEquivalence ==
    (/\ FullPipelineDone
     /\ OnlyChunksOfThisRun
     /\ Dispatched = ProviderIds
     /\ \A i \in DOMAIN batches : neo4j_raised_at[i] = NotRaised)
    => ScoresOf(final_file) = ScoresOf(SingleBatchFinal)

\* C3: an invocation of merge-only while a batch of the run has payment
\* rows and no chunk in the store does not write a final file
C3_MergeDetectsMissingChunk ==
    [][(/\ merge_only' /\ run' = run + 1
        /\ \E i \in DOMAIN batches : ChunkMissing(i))
       => final_file' = final_file]_vars

C9_CalibratedOverEntirePopulation ==
    /\ final_file # <<>> => final_population = PaidIds
    /\ \A n \in DOMAIN db_population : db_population[n] = PaidIds

\* sum of the five weights, in percent
WeightSum ==
    WEIGHTS.billing_outlier_score + WEIGHTS.ownership_chain_risk
    + WEIGHTS.payment_trajectory_score + WEIGHTS.exclusion_proximity_score
    + WEIGHTS.program_concentration_score

\* C11: the weights are 0.30 / 0.25 / 0.20 / 0.15 / 0.10 and sum to 1.0, and
\* for components in [0, 100] r_raw is in [0, 100], 0 when every component
\* is 0 and 100 when every component is 100
C11_WeightedSumInRange ==
    /\ WEIGHTS = [billing_outlier_score |-> 30, ownership_chain_risk |-> 25,
                  payment_trajectory_score |-> 20, exclusion_proximity_score |-> 15,
                  program_concentration_score |-> 10]
    /\ WeightSum = 100
    /\ probe.fn = "r_raw" =>
          /\ probe.r_raw >= 0 /\ probe.r_raw <= 1000000
          /\ (\A k \in 1..5 : probe.components[k] = 0) => probe.r_raw = 0
          /\ (\A k \in 1..5 : probe.components[k] = 10000) => probe.r_raw = 1000000
          /\ 100 * probe.r_raw =
                WeightSum * (30 * probe.components[1] + 25 * probe.components[2]
                             + 20 * probe.components[3] + 15 * probe.components[4]
                             + 10 * probe.components[5])

\* every component at 100 gave r_raw = 100
C11_Witness ==
    /\ probe.fn = "r_raw"
    /\ probe.components = <<10000, 10000, 10000, 10000, 10000>>
    /\ probe.r_raw = 1000000

\* the number of flags of the probed call that a rule produced
FlagsOf(rule) == Cardinality({k \in DOMAIN probe.flags : probe.flags[k][1] = rule})

\* 1 for a satisfied rule, 0 for an unsatisfied one
Fires(cond) == IF cond THEN 1 ELSE 0

\* C12: generate_flags emits one flag for each satisfied rule and none for
\* an unsatisfied one, each rule on its own (percentile >= 95; billing >= 80
\* and trajectory >= 60; ownership >= 50; concentration >= 60;
\* exclusion proximity >= 80), so no flag below every threshold and five
\* flags when all five rules are satisfied
C12_OneFlagPerRule ==
    probe.fn = "generate_flags" =>
        /\ FlagsOf("billing_percentile") = Fires(probe.billing_outlier_percentile >= 9500)
        /\ FlagsOf("rapid_growth") =
              Fires(probe.billing_outlier_score >= 8000 /\ probe.payment_trajectory_score >= 6000)
        /\ FlagsOf("chain_excluded") = Fires(probe.ownership_chain_risk >= 5000)
        /\ FlagsOf("single_payer") = Fires(probe.program_concentration_score >= 6000)
        /\ FlagsOf("exclusion") = Fires(probe.exclusion_proximity_score >= 8000)
        /\ Len(probe.flags) =
              FlagsOf("billing_percentile") + FlagsOf("rapid_growth") + FlagsOf("chain_excluded")
              + FlagsOf("single_payer") + FlagsOf("exclusion")

\* a call with every rule satisfied returned five flags
C12_Witness ==
    /\ probe.fn = "generate_flags"
    /\ probe.billing_outlier_percentile >= 9500
    /\ probe.billing_outlier_score >= 8000 /\ probe.payment_trajectory_score >= 6000
    /\ probe.ownership_chain_risk >= 5000
    /\ probe.program_concentration_score >= 6000
    /\ probe.exclusion_proximity_score >= 8000
    /\ Len(probe.flags) = 5

\* the tier of provider n in the probed call, from the highest
ExclusionTier(n) ==
    IF \E x \in probe.exclusions_df : x.npi = n /\ ~x.reinstated THEN 10000
    ELSE IF n \in probe.owner_excluded THEN 8000
    ELSE IF n \in DOMAIN probe.chain_excluded /\ probe.chain_excluded[n] > 0 THEN 5000
    ELSE 0

\* C13: compute_exclusion_proximity gives every provider of providers_df
\* one row with the first matching tier: 100 with an active exclusion
\* record, else 80 with an excluded owner, else 50 with an excluded
\* provider in its chain, else 0
C13_HighestTierWins ==
    probe.fn = "compute_exclusion_proximity" =>
        /\ DOMAIN probe.out = DOMAIN probe.providers_df
        /\ \A i \in DOMAIN probe.out :
              /\ probe.out[i].npi = probe.providers_df[i].npi
              /\ probe.out[i].exclusion_proximity_score = ExclusionTier(probe.out[i].npi)

\* a provider matching all three tiers was scored 100, and one matching
\* the owner and chain tiers only was scored 80
C13_Witness ==
    /\ probe.fn = "compute_exclusion_proximity"
    /\ probe.owner_excluded = NPIS
    /\ DOMAIN probe.chain_excluded = NPIS
    /\ \A n \in NPIS : probe.chain_excluded[n] > 0
    /\ probe.exclusions_df = {[npi |-> 1, reinstated |-> FALSE], [npi |-> 2, reinstated |-> TRUE]}
    /\ probe.out[1].exclusion_proximity_score = 10000
    /\ probe.out[2].exclusion_proximity_score = 8000

\* C14: a provider with positive total payments and largest program share
\* s has the concentration score min(100, 200 (s - 0.5)) when s > 0.5 and 0
\* otherwise (s = 1 gives 100, s = 0.75 gives 50, s = 0.60 gives 20)
C14_ScoreFromLargestShare ==
    (probe.fn = "compute_program_concentration" /\ probe.grand_total > 0) =>
        probe.program_concentration_score =
            (IF 2 * probe.top > probe.grand_total
             THEN Min(10000, RoundDiv(20000 * probe.top - 10000 * probe.grand_total,
                                      probe.grand_total))
             ELSE 0)

\* C15: robust_zscore returns a value in [-5, 5]; 0 when values is empty and
\* when the target is the median; and with a MAD that is (near) zero, +5
\* for every target above the median and -5 for every target below it
C15_ZscoreSaturates ==
    probe.fn = "robust_zscore" =>
        /\ probe.z >= -ZClip /\ probe.z <= ZClip
        /\ Len(probe.values) = 0 => probe.z = 0
        /\ (Len(probe.values) > 0 /\ probe.target # NaN) =>
              /\ 2 * probe.target = Med2Of(probe.values) => probe.z = 0
              /\ Mad4Of(probe.values) < 4 * MAD_FLOOR =>
                    /\ 2 * probe.target > Med2Of(probe.values) => probe.z = ZClip
                    /\ 2 * probe.target < Med2Of(probe.values) => probe.z = -ZClip

\* a batch of the current run whose shard has no payment rows
EmptyShard(i) == BatchIds(i) \cap PaidIds = {}

\* C16: a batch whose shard has no payment rows returns the empty result
\* in a step that leaves every chunk, the retry counts and the fault count
\* as they were and makes the batch Succeeded; the batch then stays
\* Succeeded, main collects it without adding a result path, and only
\* such completed batches are behind a merge call
C16_EmptyBatchCompletes ==
    [][run' = run =>
         \A i \in DOMAIN batches :
            /\ (EmptyShard(i) /\ batchState[i] = "Running" /\ batchState'[i] = "Succeeded") =>
                  /\ returned'[i] = EmptyPath
                  /\ output_chunks' = output_chunks
                  /\ retried' = retried
                  /\ faults' = faults
            /\ (returned[i] = EmptyPath) =>
                  /\ batchState'[i] = "Succeeded"
                  /\ returned'[i] = EmptyPath
                  /\ (i \in collected' /\ i \notin collected) => results' = results
            /\ (EmptyShard(i) /\ mainPc' = "merge") =>
                  returned'[i] = EmptyPath /\ i \in collected']_vars

\* a full run with an empty batch and a batch with payments reached its
\* end: the empty batch returned the empty result on its first attempt and
\* the final file holds the other batch's provider
C16_Witness ==
    /\ FullPipelineDone
    /\ \E i, j \in DOMAIN batches :
          /\ returned[i] = EmptyPath /\ retried[i] = 0
          /\ ChunkKey(i) \notin DOMAIN output_chunks
          /\ returned[j] = ChunkKey(j)
          /\ NpisOf(FinalRows) = BatchIds(j)

\* a step of merge-only taken when the previous run ended with a merge:
\* the chunk store is the one that merge read
MergeRepeated == mainPc = "done" /\ merge_only' /\ run' = run + 1

BatchIndices == 0..(NumNpi - 1)
Runs == 1..MaxRuns

\* batch i of the run in progress
InRun(r, i) == run = r /\ ~merge_only /\ i \in DOMAIN batches

\* the transitions of Pending -> Running -> {Succeeded | Failed ->
\* Retrying -> Running | Failed (terminal)}, a retry only within the budget
BatchTransition(i) ==
    \/ batchState'[i] = batchState[i] /\ retried'[i] = retried[i]
    \/ batchState[i] = "Pending" /\ batchState'[i] = "Running" /\ retried'[i] = retried[i]
    \/ batchState[i] = "Running" /\ batchState'[i] \in {"Succeeded", "Failed"}
          /\ retried'[i] = retried[i]
    \/ batchState[i] = "Failed" /\ batchState'[i] = "Retrying"
          /\ retried[i] < RETRIES /\ retried'[i] = retried[i] + 1
    \/ batchState[i] = "Retrying" /\ batchState'[i] = "Running" /\ retried'[i] = retried[i]

\* C18: each batch follows Pending -> Running -> {Succeeded | Failed ->
\* Retrying -> Running | Failed (terminal)} with at most RETRIES retries, a
\* terminal failure surfaces (main raises), and every batch of a run
\* eventually is Succeeded or terminally Failed
C18_BatchStateMachine ==
    /\ [][run' = run => \A i \in DOMAIN batches : BatchTransition(i)]_vars
    /\ [](\A i \in DOMAIN batches : retried[i] <= RETRIES)
    /\ \A r \in Runs, i \in BatchIndices :
          (InRun(r, i) /\ TerminalFailed(i)) ~> (run = r /\ mainPc = "failed")
    /\ \A r \in Runs, i \in BatchIndices :
          InRun(r, i) ~> (InRun(r, i) /\ (batchState[i] = "Succeeded" \/ TerminalFailed(i)))

\* the chunk of batch j is as it was
ChunkUntouched(j) ==
    IF ChunkKey(j) \in DOMAIN output_chunks
    THEN ChunkKey(j) \in DOMAIN output_chunks'
         /\ output_chunks'[ChunkKey(j)] = output_chunks[ChunkKey(j)]
    ELSE ChunkKey(j) \notin DOMAIN output_chunks'

\* C19: a step that changes the state or the retry count of one batch
\* leaves the state, the result and the chunk of every other batch as they
\* were, and whatever happens to the others, a batch that does not fail
\* itself runs to Succeeded
C19_SiblingsUnaffected ==
    /\ [][run' = run =>
            \A i, j \in DOMAIN batches :
               (i # j /\ (batchState'[i] # batchState[i] \/ retried'[i] # retried[i])) =>
                  /\ batchState'[j] = batchState[j]
                  /\ retried'[j] = retried[j]
                  /\ returned'[j] = returned[j]
                  /\ ChunkUntouched(j)]_vars
    /\ \A r \in Runs, j \in BatchIndices :
          InRun(r, j) ~>
             (InRun(r, j) /\ (batchState[j] \in {"Succeeded", "Failed"} \/ retried[j] > 0))

\* the (shard, position) pairs of the partition that hold id n
PlacesOf(n) ==
    {ij \in (DOMAIN probe.batches) \X (1..MaxIds) :
        ij[2] \in DOMAIN probe.batches[ij[1]] /\ probe.batches[ij[1]][ij[2]] = n}

ShardCount == Cardinality(DOMAIN probe.batches)

FullPartition == probe.fn = "partition" /\ probe.max_batches = 0

\* C20: with max_batches = 0 the N distinct ids are split into ceil(N / batch_size)
\* shards indexed 0..ceil(N / batch_size) - 1; every id is in exactly one shard, no
\* shard is empty, and every shard but possibly the last holds batch_size ids
C20_PartitionIsExact ==
    FullPartition =>
        /\ DOMAIN probe.batches = 0..(ShardCount - 1)
        /\ IF Len(probe.all_npis) = 0 THEN ShardCount = 0
              ELSE (ShardCount - 1) * probe.batch_size < Len(probe.all_npis)
        /\ Len(probe.all_npis) <= ShardCount * probe.batch_size
        /\ \A k \in DOMAIN probe.all_npis : Cardinality(PlacesOf(probe.all_npis[k])) = 1
        /\ \A i \in DOMAIN probe.batches :
              /\ Len(probe.batches[i]) > 0
              /\ SeqRange(probe.batches[i]) \subseteq SeqRange(probe.all_npis)
              /\ i < ShardCount - 1 => Len(probe.batches[i]) = probe.batch_size

\* a split whose last shard is shorter than the others
C20_Witness ==
    /\ FullPartition
    /\ ShardCount >= 3
    /\ Len(probe.batches[ShardCount - 1]) < probe.batch_size
    /\ Len(probe.batches[0]) = probe.batch_size

\* a key of the chunk store is written in the step: added or its rows replaced
KeyWritten(k) ==
    /\ k \in DOMAIN output_chunks'
    /\ k \notin DOMAIN output_chunks \/ output_chunks'[k] # output_chunks[k]

\* the attempts that are running and will write key k
WritersOf(k) == {i \in DOMAIN batches : batchState[i] = "Running" /\ ChunkKey(i) = k}

\* C21: different batch indices have different chunk keys; a key has at
\* most one running task at any time, a retried attempt starting only
\* after the previous attempt of its batch has ended; and a step that
\* writes to the chunk store is the end of one running attempt, which writes
\* the key of its own batch and leaves every other key as it was
C21_OneWriterPerKey ==
    /\ [](\A i, j \in DOMAIN batches : i # j => ChunkKey(i) # ChunkKey(j))
    /\ [](\A i \in DOMAIN batches : Cardinality(WritersOf(ChunkKey(i))) <= 1)
    /\ [][run' = run =>
            /\ \A i \in DOMAIN batches :
                  (batchState'[i] = "Running" /\ batchState[i] # "Running") =>
                     batchState[i] \in {"Pending", "Retrying"}
            /\ \A k \in DOMAIN output_chunks' :
                  KeyWritten(k) =>
                     \E i \in DOMAIN batches :
                        /\ ChunkKey(i) = k
                        /\ batchState[i] = "Running" /\ batchState'[i] # "Running"
                        /\ \A j \in DOMAIN batches : j # i => ChunkUntouched(j)
            /\ DOMAIN output_chunks \subseteq DOMAIN output_chunks']_vars

\* in the first run, a retry is running for a batch whose failed attempt
\* had written the batch's key, while another batch is running too
C21_Witness ==
    /\ run = 1
    /\ \E i, j \in DOMAIN batches :
          /\ i # j
          /\ batchState[i] = "Running" /\ retried[i] > 0
          /\ ChunkKey(i) \in DOMAIN output_chunks
          /\ ChunkKey(j) \notin DOMAIN output_chunks
          /\ batchState[j] = "Running"

\* the chunk of batch i as its last attempt computes it, whenever it ends
ExpectedChunk(i) ==
    IF EmptyShard(i) THEN <<>>
    ELSE BatchRows(batches[i], payments_all, providers_all, exclusions_all,
                   neo4j_results[i], NowIso(run))

\* the chunks of batches i, i + 1, .. one after the other
RECURSIVE ChunksFrom(_)
ChunksFrom(i) ==
    IF i \notin DOMAIN batches THEN <<>> ELSE ExpectedChunk(i) \o ChunksFrom(i + 1)

\* C22: whatever the order in which the batches of a run completed and were
\* collected, the final file is the one computed from the batches' chunks
\* taken in index order: same rows, scores, labels and row order, the rows
\* ascending by provider id
C22_CollectionOrderIrrelevant ==
    (FullPipelineDone /\ OnlyChunksOfThisRun) =>
        /\ final_file = SortByNpi(CalibratedFrame(ChunksFrom(0)))
        /\ \A k, l \in DOMAIN final_file : k < l => final_file[k].npi <= final_file[l].npi

\* a run of two batches with a chunk each, one of them written by a retry,
\* ended; the two providers have the same r_raw and different scores
C22_Witness ==
    /\ FullPipelineDone /\ run = 1
    /\ Cardinality(DOMAIN output_chunks) = 2
    /\ \E i \in DOMAIN batches : retried[i] > 0
    /\ Len(final_file) = 2
    /\ final_file[1].r_raw = final_file[2].r_raw
    /\ final_file[1].risk_score # final_file[2].risk_score

\* the score and label of the only row of a frame
OneScore(df) == <<df[1].risk_score, df[1].risk_label>>

\* C23: a calibrated population of one row gets 100 r_raw / max(r_raw, 1)
\* to two decimals, from compute_composite and from merge_results alike:
\* score 0 and Low for r_raw = 0, score 100 and High from r_raw = 1 on
C23_SingleRowCalibration ==
    probe.fn = "one_row" =>
        /\ Len(probe.composite) = 1 /\ Len(probe.merged) = 1
        /\ OneScore(probe.composite) = OneScore(probe.merged)
        /\ probe.composite[1].r_raw = probe.r_raw /\ probe.merged[1].r_raw = probe.r_raw
        /\ probe.r_raw = 0 => OneScore(probe.composite) = <<0, "Low">>
        /\ probe.r_raw >= 10000 => OneScore(probe.composite) = <<1000000, "High">>
        /\ probe.r_raw < 10000 => probe.composite[1].risk_score = 100 * probe.r_raw

\* a single row with r_raw = 30, scored 100
C23_Witness ==
    /\ probe.fn = "one_row"
    /\ probe.r_raw = 300000
    /\ OneScore(probe.merged) = <<1000000, "High">>

\* the percentile rank of a row of peer_metrics is undefined: the row is
\* not an eligible peer, or its resolved group has at most one member
RankUndefined(r) == r.total_claims < PEER_MIN_CLAIMS \/ r.peer_count <= 1

\* C24: every provider-year whose percentile rank is undefined is reported
\* with m1_pct_rank = 50.0, never NaN and never null
C24_UndefinedRankDefaults ==
    probe.fn = "compute_peer_metrics" =>
        \A r \in probe.peer_metrics :
            /\ r.m1_pct_rank # Null
            /\ RankUndefined(r) => r.m1_pct_rank = 5000

\* the rows of provider n in its own three most recent years
OwnRecent(payments, n) ==
    {r \in payments :
        /\ r.npi = n
        /\ r.year >= MaxOfSet({q.year : q \in {x \in payments : x.npi = n}}) - 2}

\* payments of provider n in program prog over its own recent years
OwnProgTotal(payments, n, prog) ==
    SumOver([r \in {q \in OwnRecent(payments, n) : q.program = prog} |-> r.payments],
            {q \in OwnRecent(payments, n) : q.program = prog})

\* the concentration score of provider n over its own recent years
OwnWindowScore(payments, n) ==
    ShareScore(MaxOfSet({OwnProgTotal(payments, n, pr) : pr \in {"Medicare", "Medicaid"}}),
               OwnProgTotal(payments, n, "Medicare") + OwnProgTotal(payments, n, "Medicaid"),
               1)

\* C25: every provider of the input gets the concentration score of its
\* program shares over its own latest year and the two years before it,
\* whatever the latest year of the other providers of the input
C25_OwnRecentWindow ==
    probe.fn = "concentration_window" =>
        \A n \in NpisOf(probe.payments) :
            \E r \in probe.scores :
                /\ r.npi = n
                /\ r.program_concentration_score = OwnWindowScore(probe.payments, n)

\* total payments of provider n in calendar year y; the provider-years
YearTotal(payments, n, y) ==
    SumOver([r \in {q \in payments : q.npi = n /\ q.year = y} |-> r.payments],
            {q \in payments : q.npi = n /\ q.year = y})
ProviderYears(payments) == {<<r.npi, r.year>> : r \in payments}

\* C26: the growth row of provider n and year t exists exactly when n has
\* payments in calendar year t - 1 and holds
\* (payments_t - payments_{t-1}) / max(payments_{t-1}, 1); a provider
\* without a growth row has payment_trajectory_score 0 in the joined scores
C26_GrowthFromPreviousYear ==
    probe.fn = "compute_trajectory_score" =>
        /\ \A ny \in ProviderYears(probe.payments) :
              IF <<ny[1], ny[2] - 1>> \in ProviderYears(probe.payments)
              THEN \E g \in probe.npi_yearly :
                      /\ g.npi = ny[1] /\ g.year = ny[2]
                      /\ g.growth_rate =
                            GrowthRate(YearTotal(probe.payments, ny[1], ny[2]),
                                       YearTotal(probe.payments, ny[1], ny[2] - 1))
              ELSE ~ \E g \in probe.npi_yearly : g.npi = ny[1] /\ g.year = ny[2]
        /\ \A k \in DOMAIN probe.scores :
              (~ \E g \in probe.npi_yearly : g.npi = probe.scores[k].npi) =>
                  probe.scores[k].payment_trajectory_score = 0

\* a finite number between 0 and hi
FiniteIn(x, hi) == x # NaN /\ x # Null /\ 0 <= x /\ x <= hi

\* C27: whatever the payment rows (zero or negative payments, no claims or
\* beneficiaries, no eligible peer group, no row in a component table),
\* the five component scores and r_raw of every row a batch writes are
\* finite numbers in [0, 100]
C27_NoNaNInComposite ==
    probe.fn = "process_npi_batch" =>
        \A k \in DOMAIN probe.rows :
            /\ FiniteIn(probe.rows[k].billing_outlier_score, 10000)
            /\ FiniteIn(probe.rows[k].ownership_chain_risk, 10000)
            /\ FiniteIn(probe.rows[k].payment_trajectory_score, 10000)
            /\ FiniteIn(probe.rows[k].exclusion_proximity_score, 10000)
            /\ FiniteIn(probe.rows[k].program_concentration_score, 10000)
            /\ FiniteIn(probe.rows[k].r_raw, 1000000)

\* C28: calibration ranks densely: two rows of the final file with the
\* same r_raw have the same risk_score and the same risk_label, whatever
\* their order in the chunks
C28_TiesShareScore ==
    \A k, l \in DOMAIN final_file :
        final_file[k].r_raw = final_file[l].r_raw =>
            /\ final_file[k].risk_score = final_file[l].risk_score
            /\ final_file[k].risk_label = final_file[l].risk_label

\* the keys of the chunks that hold a row of provider n
ChunksOf(n) == {k \in DOMAIN output_chunks : n \in RowNpis(output_chunks[k])}

\* C29: whatever runs went before, the merge of a full run has read only
\* chunks written by the batches of that run, and no provider id is in
\* more than one of the chunks it read
C29_MergeReadsCurrentRunOnly ==
    FullPipelineDone =>
        /\ OnlyChunksOfThisRun
        /\ \A k \in DOMAIN output_chunks : \E i \in DOMAIN batches : ChunkKey(i) = k
        /\ \A n \in NPIS : Cardinality(ChunksOf(n)) <= 1

\* the rows of provider n in the chunk store, as (key, position) pairs, and
\* the positions of its rows in a frame
ChunkPlaces(n) ==
    UNION {{<<k, j>> : j \in {x \in DOMAIN output_chunks[k] : output_chunks[k][x].npi = n}}
              : k \in DOMAIN output_chunks}
FramePlaces(df, n) == {j \in DOMAIN df : df[j].npi = n}

\* a step of merge_results that read at least one chunk
MergeStep ==
    /\ DOMAIN output_chunks # {}
    /\ \/ mainPc = "merge" /\ mainPc' = "done"
       \/ run' = run + 1 /\ merge_only'

\* C30: the final file merge_results writes has as many rows as the chunks
\* it read have together, and every provider id as often as the chunks do
C30_MergeKeepsRows ==
    [][MergeStep =>
         /\ output_chunks' = output_chunks
         /\ Len(final_file') = Cardinality(UNION {ChunkPlaces(n) : n \in NpisOf(ChunkRows)})
         /\ RowNpis(final_file') = NpisOf(ChunkRows)
         /\ \A n \in NpisOf(ChunkRows) :
               Cardinality(FramePlaces(final_file', n)) = Cardinality(ChunkPlaces(n))]_vars

\* a merge has written a final file with two rows of one provider id, read
\* from two chunks
C30_Witness ==
    /\ mainPc = "done"
    /\ Cardinality(DOMAIN output_chunks) = 2
    /\ final_file = MergeFrame(output_chunks)
    /\ \E n \in NPIS : Cardinality(FramePlaces(final_file, n)) = 2 /\ Cardinality(ChunksOf(n)) = 2

=============================================================================
